---------------------------- MODULE Spec2Model ----------------------------
(***************************************************************************)
(* A model of the C static analyzer of this repository (backend/analyzer). *)
(*                                                                         *)
(* The AST the frontend hands to the checkers is an input: every node is   *)
(* given by the attributes the code reads from its cursor (kind, resolved  *)
(* names, location, which tokens occur).  The recursive descent of         *)
(* MemorySafetyChecker._check_function.traverse is modelled in pre-order,  *)
(* one node per step; its `guards` parameter is the stack `guards`.        *)
(***************************************************************************)
EXTENDS Integers, Sequences, FiniteSets, TLC

(***************************************************************************)
(* Bounds of the model.                                                    *)
(***************************************************************************)
MaxNodes == 5      \* cursors one MemorySafetyChecker instance gets to handle

None == ""                          \* Python's None for an Optional[str]
Names == {"p", "g"}                 \* identifiers of the analyzed source
FuncNames == {"f", "main"}          \* functions defined in the analyzed source
AllocNames == {"malloc", "calloc", "realloc"}
Lines == {1, 2}
Cols == {1}
Locs == Lines \X Cols               \* node.location as (line, column)
DeclLoc == <<1, 1>>                 \* where the top-level declarations start
SrcFile == "a.c"

(***************************************************************************)
(* report.py: Issue.  The message text is modelled by the values that are  *)
(* formatted into it: the kind of finding, the identifier, and the two     *)
(* counters of the leak message.                                           *)
(***************************************************************************)
Issue(category, severity, kind, name, a, b, file, loc) ==
    [category |-> category, severity |-> severity,
     message |-> <<kind, name, a, b>>,
     file |-> file, line |-> loc[1], column |-> loc[2], suggestion |-> TRUE]

_build_use_after_free_issue(loc, name) ==
    Issue("memory", "error", "use_after_free", name, 0, 0, SrcFile, loc)
_build_null_deref_issue(loc, name) ==
    Issue("memory", "error", "null_deref", name, 0, 0, SrcFile, loc)
_build_uninitialized_pointer_issue(loc, name) ==
    Issue("memory", "error", "uninitialized_use", name, 0, 0, SrcFile, loc)
_build_double_free_issue(loc, name) ==
    Issue("memory", "error", "double_free", name, 0, 0, SrcFile, loc)
_build_leak_issue(loc, fname, allocs, frees) ==
    Issue("memory", "warning", "leak", fname, allocs, frees, SrcFile, loc)
_build_global_uninitialized_issue(loc, name) ==
    Issue("memory", "warning", "global_uninitialized", name, 0, 0, SrcFile, loc)

(***************************************************************************)
(* MemorySafetyChecker: the instance state (the four summary collections)  *)
(* and the frame of one _check_function call.                              *)
(***************************************************************************)
NewChecker ==
    [global_uninitialized |-> {}, global_array_sizes |-> <<>>,
     leaky_functions |-> {}, unsafe_pointer_returners |-> {}]

NewFrame(fname, floc, params) ==
    [fn |-> fname, floc |-> floc,
     issues |-> <<>>,
     pointer_null |-> {}, local_uninitialized |-> {},
     pointer_vars |-> params, freed_pointers |-> {},
     reported_uninitialized |-> {}, reported_null |-> {},
     reported_uaf |-> {}, reported_double_free |-> {},
     allocation_calls |-> 0, free_calls |-> 0,
     returns_uninitialized_pointer |-> FALSE]

NoFrame == NewFrame(None, <<0, 0>>, {})

mark_initialized(fr, name) ==
    IF name = None THEN fr
    ELSE [fr EXCEPT !.local_uninitialized = @ \ {name},
                    !.pointer_null = @ \ {name},
                    !.freed_pointers = @ \ {name}]

\* A pointer-use check that consults no dedup set.
report_pointer_use_undeduped(fr, gu, name, loc, allow_freed, g) ==
    IF name = None THEN fr
    ELSE IF name \in fr.freed_pointers /\ ~allow_freed THEN
        [fr EXCEPT !.issues = Append(@, _build_use_after_free_issue(loc, name))]
    ELSE IF name \in fr.pointer_null /\ name \notin g /\ name \notin fr.freed_pointers THEN
        [fr EXCEPT !.issues = Append(@, _build_null_deref_issue(loc, name))]
    ELSE IF name \in fr.local_uninitialized \/ name \in gu THEN
        [fr EXCEPT !.issues = Append(@, _build_uninitialized_pointer_issue(loc, name)),
                   !.local_uninitialized = @ \ {name}]
    ELSE fr

\* A check that tests for a null value before it tests for a freed pointer.
report_pointer_use_null_first(fr, gu, name, loc, allow_freed, g) ==
    LET location_key == <<name, loc[1], loc[2]>> IN
    IF name = None THEN fr
    ELSE IF name \in fr.pointer_null /\ name \notin g THEN
        IF location_key \notin fr.reported_null
        THEN [fr EXCEPT !.reported_null = @ \cup {location_key},
                        !.issues = Append(@, _build_null_deref_issue(loc, name))]
        ELSE fr
    ELSE IF name \in fr.freed_pointers /\ ~allow_freed THEN
        IF location_key \notin fr.reported_uaf
        THEN [fr EXCEPT !.reported_uaf = @ \cup {location_key},
                        !.issues = Append(@, _build_use_after_free_issue(loc, name))]
        ELSE fr
    ELSE IF name \in fr.local_uninitialized \/ name \in gu THEN
        LET fr1 == IF location_key \notin fr.reported_uninitialized
                   THEN [fr EXCEPT !.reported_uninitialized = @ \cup {location_key},
                                   !.issues = Append(@, _build_uninitialized_pointer_issue(loc, name))]
                   ELSE fr
        IN [fr1 EXCEPT !.local_uninitialized = @ \ {name}]
    ELSE fr

\* A check whose null branch does not look at the guards.
report_pointer_use_ignores_guards(fr, gu, name, loc, allow_freed, g) ==
    LET location_key == <<name, loc[1], loc[2]>> IN
    IF name = None THEN fr
    ELSE IF name \in fr.freed_pointers /\ ~allow_freed THEN
        IF location_key \notin fr.reported_uaf
        THEN [fr EXCEPT !.reported_uaf = @ \cup {location_key},
                        !.issues = Append(@, _build_use_after_free_issue(loc, name))]
        ELSE fr
    ELSE IF name \in fr.pointer_null /\ name \notin fr.freed_pointers THEN
        IF location_key \notin fr.reported_null
        THEN [fr EXCEPT !.reported_null = @ \cup {location_key},
                        !.issues = Append(@, _build_null_deref_issue(loc, name))]
        ELSE fr
    ELSE IF name \in fr.local_uninitialized \/ name \in gu THEN
        LET fr1 == IF location_key \notin fr.reported_uninitialized
                   THEN [fr EXCEPT !.reported_uninitialized = @ \cup {location_key},
                                   !.issues = Append(@, _build_uninitialized_pointer_issue(loc, name))]
                   ELSE fr
        IN [fr1 EXCEPT !.local_uninitialized = @ \ {name}]
    ELSE fr

report_pointer_use(fr, gu, name, loc, allow_freed, g) ==
    LET location_key == <<name, loc[1], loc[2]>> IN
    IF name = None THEN fr
    ELSE IF name \in fr.freed_pointers /\ ~allow_freed THEN
        IF location_key \notin fr.reported_uaf
        THEN [fr EXCEPT !.reported_uaf = @ \cup {location_key},
                        !.issues = Append(@, _build_use_after_free_issue(loc, name))]
        ELSE fr
    ELSE IF name \in fr.pointer_null /\ name \notin g /\ name \notin fr.freed_pointers THEN
        IF location_key \notin fr.reported_null
        THEN [fr EXCEPT !.reported_null = @ \cup {location_key},
                        !.issues = Append(@, _build_null_deref_issue(loc, name))]
        ELSE fr
    ELSE IF name \in fr.local_uninitialized \/ name \in gu THEN
        LET fr1 == IF location_key \notin fr.reported_uninitialized
                   THEN [fr EXCEPT !.reported_uninitialized = @ \cup {location_key},
                                   !.issues = Append(@, _build_uninitialized_pointer_issue(loc, name))]
                   ELSE fr
        IN [fr1 EXCEPT !.local_uninitialized = @ \ {name}]
    ELSE fr


(***************************************************************************)
(* traverse: the state changes made when one node is visited.  `unsafe` is *)
(* self._unsafe_pointer_returners and `gu` self._global_uninitialized.     *)
(***************************************************************************)

\* VAR_DECL of pointer type outside a struct/union: has_init says whether the
\* declaration has children, null_init whether its tokens hold NULL or end in 0.
VisitVarDecl(fr, name, has_init, null_init) ==
    IF name = None THEN fr
    ELSE LET fr1 == [fr EXCEPT !.pointer_vars = @ \cup {name}] IN
         IF ~has_init THEN [fr1 EXCEPT !.local_uninitialized = @ \cup {name}]
         ELSE IF null_init THEN [fr1 EXCEPT !.pointer_null = @ \cup {name}]
         ELSE mark_initialized(fr1, name)

\* An assignment whose null branch leaves FREED alone.
VisitAssign_keeps_freed(fr, unsafe, target, callee, rhs_form) ==
    IF target /= None /\ target \in fr.pointer_vars THEN
        IF callee \in AllocNames THEN mark_initialized(fr, target)
        ELSE IF callee /= None /\ callee \in unsafe
            THEN [fr EXCEPT !.local_uninitialized = @ \cup {target}]
        ELSE IF rhs_form = "addr" THEN mark_initialized(fr, target)
        ELSE IF rhs_form = "null"
            THEN [fr EXCEPT !.pointer_null = @ \cup {target},
                            !.local_uninitialized = @ \ {target}]
        ELSE mark_initialized(fr, target)
    ELSE fr

\* An assignment that leaves its transition until its children are walked.
VisitAssign_deferred(fr, unsafe, target, callee, rhs_form) == fr

\* BINARY_OPERATOR whose tokens hold "=": target is the resolved left child,
\* callee the resolved callee of the right child, rhs_form what the filtered
\* right-hand tokens look like ("addr": first token &, "null": holds NULL or
\* is exactly 0 / nullptr, "other").
VisitAssign(fr, unsafe, target, callee, rhs_form) ==
    IF target /= None /\ target \in fr.pointer_vars THEN
        IF callee \in AllocNames THEN mark_initialized(fr, target)
        ELSE IF callee /= None /\ callee \in unsafe
            THEN [fr EXCEPT !.local_uninitialized = @ \cup {target}]
        ELSE IF rhs_form = "addr" THEN mark_initialized(fr, target)
        ELSE IF rhs_form = "null"
            THEN [fr EXCEPT !.pointer_null = @ \cup {target},
                            !.freed_pointers = @ \ {target},
                            !.local_uninitialized = @ \ {target}]
        ELSE mark_initialized(fr, target)
    ELSE fr

\* A loop that marks the argument FREED before it tests for a double free.
RECURSIVE FreeArguments_marks_first(_, _, _, _)
FreeArguments_marks_first(fr, gu, args, g) ==
    IF args = <<>> THEN fr
    ELSE LET arg == Head(args)
             location_key == <<arg.name, arg.loc[1], arg.loc[2]>>
             fr0 == [fr EXCEPT !.freed_pointers = @ \cup {arg.name},
                               !.pointer_null = @ \cup {arg.name}]
             fr1 == IF arg.name \in fr0.freed_pointers /\ location_key \notin fr0.reported_double_free
                    THEN [fr0 EXCEPT !.reported_double_free = @ \cup {location_key},
                                     !.issues = Append(@, _build_double_free_issue(arg.loc, arg.name))]
                    ELSE fr0
             fr2 == report_pointer_use(fr1, gu, arg.name, arg.loc, TRUE, g)
         IN IF arg.name = None THEN FreeArguments_marks_first(fr, gu, Tail(args), g)
            ELSE FreeArguments_marks_first(fr2, gu, Tail(args), g)

\* The loop over the arguments of free(...); an argument is [name, loc] with
\* name the identifier _resolve_decl_name / _first_decl_ref_name finds.
RECURSIVE FreeArguments(_, _, _, _)
FreeArguments(fr, gu, args, g) ==
    IF args = <<>> THEN fr
    ELSE LET arg == Head(args)
             location_key == <<arg.name, arg.loc[1], arg.loc[2]>>
             fr1 == IF arg.name \in fr.freed_pointers /\ location_key \notin fr.reported_double_free
                    THEN [fr EXCEPT !.reported_double_free = @ \cup {location_key},
                                    !.issues = Append(@, _build_double_free_issue(arg.loc, arg.name))]
                    ELSE fr
             fr2 == report_pointer_use(fr1, gu, arg.name, arg.loc, TRUE, g)
             fr3 == [fr2 EXCEPT !.freed_pointers = @ \cup {arg.name},
                                !.pointer_null = @ \cup {arg.name}]
         IN IF arg.name = None THEN FreeArguments(fr, gu, Tail(args), g)
            ELSE FreeArguments(fr3, gu, Tail(args), g)

\* The loop over the arguments of any call.
RECURSIVE UseArguments(_, _, _, _, _)
UseArguments(fr, gu, args, allow_freed, g) ==
    IF args = <<>> THEN fr
    ELSE UseArguments(report_pointer_use(fr, gu, Head(args).name, Head(args).loc, allow_freed, g),
                      gu, Tail(args), allow_freed, g)

\* CALL_EXPR.
VisitCall(fr, gu, callee, args, g) ==
    LET fr1 == IF callee \in AllocNames
               THEN [fr EXCEPT !.allocation_calls = @ + 1]
               ELSE IF callee = "free"
               THEN FreeArguments([fr EXCEPT !.free_calls = @ + 1], gu, args, g)
               ELSE fr
    IN UseArguments(fr1, gu, args, callee = "free", g)

\* extra_safe of a CALL_EXPR: the names freed by it.
ExtraSafe(callee, args) ==
    IF callee = "free"
    THEN {args[i].name : i \in DOMAIN args} \ {None}
    ELSE {}

\* UNARY_OPERATOR with "*", MEMBER_REF_EXPR with "->", ARRAY_SUBSCRIPT_EXPR:
\* name is the base identifier the code resolves (None when it finds none).
VisitPointerUse(fr, gu, name, loc, g) ==
    report_pointer_use(fr, gu, name, loc, FALSE, g)

\* RETURN_STMT: decl_names in the order the set is iterated.
RECURSIVE VisitReturn(_, _, _, _, _)
VisitReturn(fr, gu, decl_names, loc, g) ==
    IF decl_names = <<>> THEN fr
    ELSE LET name == Head(decl_names)
             fr1 == report_pointer_use(fr, gu, name, loc, FALSE, g)
             fr2 == IF name \in fr1.local_uninitialized \/ name \in gu
                    THEN [fr1 EXCEPT !.returns_uninitialized_pointer = TRUE]
                    ELSE fr1
         IN IF name \in fr.pointer_vars \/ name \in gu
            THEN VisitReturn(fr2, gu, Tail(decl_names), loc, g)
            ELSE VisitReturn(fr, gu, Tail(decl_names), loc, g)

\* Iteration order of a Python set of str: fixed within one interpreter
\* process by its string-hash seed, different between processes.
HashSeeds == {0, 1}
SetOrder(S, seed) ==
    IF S = {} THEN <<>>
    ELSE IF S = {"p"} THEN <<"p">>
    ELSE IF S = {"g"} THEN <<"g">>
    ELSE IF seed = 0 THEN <<"p", "g">> ELSE <<"g", "p">>

\* A leak heuristic that compares with >=.
FinishFunction_at_least(fr) ==
    IF fr.allocation_calls >= fr.free_calls
    THEN [fr EXCEPT !.issues = Append(@, _build_leak_issue(fr.floc, fr.fn, fr.allocation_calls, fr.free_calls))]
    ELSE fr

\* The end of _check_function: the leak heuristic and the summary update.
FinishFunction(fr) ==
    IF fr.allocation_calls > fr.free_calls
    THEN [fr EXCEPT !.issues = Append(@, _build_leak_issue(fr.floc, fr.fn, fr.allocation_calls, fr.free_calls))]
    ELSE fr

FinishChecker(chk, fr) ==
    [chk EXCEPT
        !.leaky_functions =
            IF fr.allocation_calls > fr.free_calls /\ fr.fn /= None
            THEN @ \cup {fr.fn} ELSE @,
        !.unsafe_pointer_returners =
            IF fr.returns_uninitialized_pointer /\ fr.fn /= None
            THEN @ \cup {fr.fn} ELSE @]


(***************************************************************************)
(* Condition expressions of if statements, as the cursors the frontend     *)
(* gives: kind, spelling, tokens (collect_tokens) and children.            *)
(***************************************************************************)
Ref(n) == [kind |-> "DECL_REF_EXPR", spelling |-> n, tokens |-> <<n>>, children |-> <<>>]
Lit(t) == [kind |-> "LITERAL", spelling |-> None, tokens |-> <<t>>, children |-> <<>>]
Unexposed(c) == [kind |-> "UNEXPOSED_EXPR", spelling |-> c.spelling, tokens |-> c.tokens, children |-> <<c>>]
Paren(c) == [kind |-> "PAREN_EXPR", spelling |-> None, tokens |-> <<"(">> \o c.tokens \o <<")">>, children |-> <<c>>]
Unary(op, c) == [kind |-> "UNARY_OPERATOR", spelling |-> None, tokens |-> <<op>> \o c.tokens, children |-> <<c>>]
Binary(op, l, r) == [kind |-> "BINARY_OPERATOR", spelling |-> None, tokens |-> l.tokens \o <<op>> \o r.tokens, children |-> <<l, r>>]
CallExpr(f, a) == [kind |-> "CALL_EXPR", spelling |-> f, tokens |-> <<f, "(">> \o a.tokens \o <<")">>, children |-> <<Unexposed(Ref(f)), a>>]

MemberRef(c, field) == [kind |-> "MEMBER_REF_EXPR", spelling |-> field, tokens |-> c.tokens \o <<"->", field>>, children |-> <<c>>]
Subscript(c, i) == [kind |-> "ARRAY_SUBSCRIPT_EXPR", spelling |-> None, tokens |-> c.tokens \o <<"[">> \o i.tokens \o <<"]">>, children |-> <<c, i>>]
Has(tokens, t) == \E i \in DOMAIN tokens : tokens[i] = t
Count(tokens, t) == Cardinality({i \in DOMAIN tokens : tokens[i] = t})
TokenSet(tokens) == {tokens[i] : i \in DOMAIN tokens}

_resolve_decl_name(cursor) ==
    IF cursor.kind = "DECL_REF_EXPR" /\ cursor.spelling /= None
    THEN cursor.spelling
    ELSE None

RECURSIVE _first_decl_ref_name(_)
RECURSIVE FirstDeclRefIn(_)
FirstDeclRefIn(children) ==
    IF children = <<>> THEN None
    ELSE LET child == Head(children) IN
         IF child.kind = "DECL_REF_EXPR" /\ child.spelling /= None THEN child.spelling
         ELSE LET result == _first_decl_ref_name(child) IN
              IF result /= None THEN result ELSE FirstDeclRefIn(Tail(children))
_first_decl_ref_name(node) == FirstDeclRefIn(node.children)

Or(a, b) == IF a /= None THEN a ELSE b      \* Python's `a or b` on Optional[str]

\* The name a free call takes for an argument that is no bare identifier
\* only when the argument itself is a reference.
arg_name_bare_only(argument) == _resolve_decl_name(argument)

\* arg_name of an argument of a call.
arg_name(argument) == Or(_resolve_decl_name(argument), _first_decl_ref_name(argument))

NullTokens == {"NULL", "0", "nullptr"}

RECURSIVE _extract_guarded_pointers(_, _)
RECURSIVE GuardsOfChildren(_, _)
GuardsOfChildren(children, pointer_vars) ==
    IF children = <<>> THEN {}
    ELSE _extract_guarded_pointers(Head(children), pointer_vars)
         \cup GuardsOfChildren(Tail(children), pointer_vars)
_extract_guarded_pointers(condition, pointer_vars) ==
    LET tokens == condition.tokens
        children == condition.children
    IN
    IF condition.kind \in {"PAREN_EXPR", "UNEXPOSED_EXPR"}
    THEN GuardsOfChildren(children, pointer_vars)
    ELSE IF condition.kind = "BINARY_OPERATOR" THEN
        IF Has(tokens, "&&") /\ Len(children) >= 2
        THEN _extract_guarded_pointers(children[1], pointer_vars)
             \cup _extract_guarded_pointers(children[2], pointer_vars)
        ELSE IF Has(tokens, "||") THEN {}
        ELSE IF Has(tokens, "!") /\ Count(tokens, "!") = 1 /\ Len(children) = 1 THEN {}
        ELSE IF Has(tokens, "!=") /\ Len(children) >= 2 THEN
            LET left == children[1]
                right == children[2]
                lname == Or(_resolve_decl_name(left), _first_decl_ref_name(left))
                rname == Or(_resolve_decl_name(right), _first_decl_ref_name(right))
            IN IF lname /= None /\ lname \in pointer_vars
                  /\ TokenSet(right.tokens) \cap NullTokens /= {}
               THEN {lname}
               ELSE IF rname /= None /\ rname \in pointer_vars
                       /\ TokenSet(left.tokens) \cap NullTokens /= {}
               THEN {rname}
               ELSE {}
        ELSE {}
    ELSE IF condition.kind = "DECL_REF_EXPR" THEN
        IF condition.spelling \in pointer_vars THEN {condition.spelling} ELSE {}
    ELSE IF condition.kind = "UNARY_OPERATOR" THEN
        IF tokens /= <<>> /\ tokens[1] = "!" THEN {}
        ELSE IF children = <<>> THEN {}
        ELSE _extract_guarded_pointers(children[1], pointer_vars)
    ELSE GuardsOfChildren(children, pointer_vars)

\* The conditions the model draws from: a pointer read is an UNEXPOSED_EXPR
\* (lvalue-to-rvalue conversion) around the DECL_REF_EXPR.
Read(n) == Unexposed(Ref(n))
AtomConds ==
    {Read(n) : n \in Names}
    \cup {Binary("!=", Read(n), Lit(z)) : n \in Names, z \in {"NULL", "0"}}
    \cup {Binary("!=", Lit("NULL"), Read(n)) : n \in Names}
    \cup {Binary("==", Read(n), Lit("NULL")) : n \in Names}
    \cup {Unary("!", Read(n)) : n \in Names}
    \cup {CallExpr("check", Read(n)) : n \in Names}
Conds ==
    AtomConds
    \cup {Paren(c) : c \in AtomConds}
    \cup {Binary("&&", Read("p"), c) : c \in AtomConds}
    \cup {Binary("||", Read("p"), c) : c \in AtomConds}
    \cup {Binary("||", Paren(Binary("&&", Read("p"), Read("g"))), Read("g"))}


(***************************************************************************)
(* The nodes of a function body in the order traverse visits them.  An if  *)
(* statement is the node "if" (met once its condition has been walked),    *)
(* "else" where its else-branch starts and "endif" where it ends; "leave"  *)
(* ends the children of a call that freed something.                       *)
(***************************************************************************)
Arg(name, loc) == [name |-> name, loc |-> loc]
EvDecl(name, init) == [op |-> "decl", name |-> name, init |-> init]
EvAssign(target, callee, rhs_form) == [op |-> "assign", name |-> target, callee |-> callee, rhs_form |-> rhs_form]
EvCall(callee, args) == [op |-> "call", callee |-> callee, args |-> args]
EvLeave == [op |-> "leave"]
EvUse(name, loc) == [op |-> "use", name |-> name, loc |-> loc]
EvReturn(names, loc) == [op |-> "return", names |-> names, loc |-> loc]
EvIf(condition) == [op |-> "if", condition |-> condition]
EvElse == [op |-> "else"]
EvEndIf == [op |-> "endif"]
\* ARRAY_SUBSCRIPT_EXPR: its first child, the tokens of its second child.
EvSubscript(base, index, loc) == [op |-> "subscript", base |-> base, index |-> index, loc |-> loc]
\* VAR_DECL of constant-array type in a function body.
EvArrayDecl(name, size) == [op |-> "arraydecl", name |-> name, size |-> size]

BodyGuards == << [g |-> {}, phase |-> "body"] >>     \* traverse(cursor, frozenset())
TopOf(gs) == gs[Len(gs)]
PopOf(gs) == SubSeq(gs, 1, Len(gs) - 1)

\* IF_STMT: the guards of the then-branch and of the else-branch.
ThenGuards(g, condition, pointer_vars) ==
    g \cup _extract_guarded_pointers(condition, pointer_vars)
\* An else-branch walked with the guards of the then-branch.
ElseGuards_of_then(outer, then_guards) == then_guards

ElseGuards(outer, then_guards) == outer

\* child_guard_context of a CALL_EXPR.
ChildGuardContext(g, callee, args) == g \cup ExtraSafe(callee, args)

\* int(text, 0) of one token: the decimal and hexadecimal literals it accepts.
\* It raises ValueError for a name and for a C octal literal such as 010.
IntTexts == {"0", "1", "2", "4", "0x4"}
PyInt(text) ==
    CASE text = "0" -> 0 [] text = "1" -> 1 [] text = "2" -> 2
      [] text = "4" -> 4 [] text = "0x4" -> 4

\* _extract_constant_index on the tokens of the index: <<v>> for the value v,
\* <<>> for None.  The tokens are joined and parsed; int accepts one sign.
_extract_constant_index(tokens) ==
    IF tokens = <<>> THEN <<>>
    ELSE IF Len(tokens) = 1 /\ tokens[1] \in IntTexts THEN << PyInt(tokens[1]) >>
    ELSE IF Len(tokens) = 2 /\ tokens[1] = "-" /\ tokens[2] \in IntTexts THEN << 0 - PyInt(tokens[2]) >>
    ELSE IF Len(tokens) = 2 /\ tokens[1] = "+" /\ tokens[2] \in IntTexts THEN << PyInt(tokens[2]) >>
    ELSE <<>>

_build_out_of_bounds_issue(loc, base_name, index_value, size) ==
    Issue("memory", "error", "out_of_bounds", base_name, index_value, size, SrcFile, loc)

\* array_sizes of _check_function: a copy of the file-scope table.  The loop
\* that would add the local arrays runs over the children of the
\* FUNCTION_DECL, which are its parameters and its body, and traverse
\* records no array, so the table stays as copied.
array_sizes(c) == c.global_array_sizes

\* _check_array_bounds: the issues it gives (none or one).
_check_array_bounds(base, index, sizes, loc) ==
    LET base_name == _resolve_decl_name(base)
        index_value == _extract_constant_index(index)
    IN IF base_name = None \/ base_name \notin DOMAIN sizes \/ index_value = <<>> THEN <<>>
       ELSE IF 0 <= index_value[1] /\ index_value[1] < sizes[base_name] THEN <<>>
       ELSE << _build_out_of_bounds_issue(loc, base_name, index_value[1], sizes[base_name]) >>

\* ARRAY_SUBSCRIPT_EXPR: the pointer-use check on the base, then the bounds.
VisitSubscript(fr, c, base, index, loc, g) ==
    LET fr1 == VisitPointerUse(fr, c.global_uninitialized, _resolve_decl_name(base), loc, g)
    IN [fr1 EXCEPT !.issues = @ \o _check_array_bounds(base, index, array_sizes(c), loc)]

\* One node: w is [fr, guards], c the checker instance.
Walk(w, c, seed, ev) ==
    LET g == TopOf(w.guards).g IN
    CASE ev.op = "decl" ->
           [w EXCEPT !.fr = VisitVarDecl(@, ev.name, ev.init /= "none", ev.init = "null")]
      [] ev.op = "assign" ->
           [w EXCEPT !.fr = VisitAssign(@, c.unsafe_pointer_returners, ev.name, ev.callee, ev.rhs_form)]
      [] ev.op = "call" ->
           [fr |-> VisitCall(w.fr, c.global_uninitialized, ev.callee, ev.args, g),
            guards |-> IF ExtraSafe(ev.callee, ev.args) /= {}
                       THEN Append(w.guards, [g |-> ChildGuardContext(g, ev.callee, ev.args), phase |-> "call"])
                       ELSE w.guards]
      [] ev.op = "leave" -> [w EXCEPT !.guards = PopOf(@)]
      [] ev.op = "use" ->
           [w EXCEPT !.fr = VisitPointerUse(@, c.global_uninitialized, ev.name, ev.loc, g)]
      [] ev.op = "return" ->
           [w EXCEPT !.fr = VisitReturn(@, c.global_uninitialized, SetOrder(ev.names, seed), ev.loc, g)]
      [] ev.op = "if" ->
           [w EXCEPT !.guards = Append(@, [g |-> ThenGuards(g, ev.condition, w.fr.pointer_vars), phase |-> "then"])]
      [] ev.op = "else" ->
           [w EXCEPT !.guards = Append(PopOf(@), [g |-> ElseGuards(w.guards[Len(w.guards) - 1].g, g), phase |-> "else"])]
      [] ev.op = "endif" -> [w EXCEPT !.guards = PopOf(@)]
      [] ev.op = "subscript" ->
           [w EXCEPT !.fr = VisitSubscript(@, c, ev.base, ev.index, ev.loc, g)]
      [] ev.op = "arraydecl" -> w      \* a VAR_DECL whose type is not a pointer

(***************************************************************************)
(* MemorySafetyChecker.run: the top-level loop.                            *)
(***************************************************************************)
\* A run that forgets to clear the function summaries.
ClearSummaries_globals_only(c) ==
    [c EXCEPT !.global_uninitialized = {}, !.global_array_sizes = <<>>]

ClearSummaries(c) == NewChecker

\* _check_pointer_initialization for a file-scope VAR_DECL.
_check_pointer_initialization(c, name, is_pointer, initialized) ==
    IF is_pointer /\ ~initialized /\ name /= None
    THEN [c EXCEPT !.global_uninitialized = @ \cup {name}]
    ELSE c

PointerInitializationIssues(name, is_pointer, initialized, loc) ==
    IF is_pointer /\ ~initialized
    THEN <<_build_global_uninitialized_issue(loc, name)>>
    ELSE <<>>

\* _collect_global_array for a file-scope VAR_DECL; size < 0 stands for an
\* extent _extract_array_size gives up on.
ArrNames == {"a"}
ArrSizes == {2, 4}
DictSet(d, k, v) == [x \in DOMAIN d \cup {k} |-> IF x = k THEN v ELSE d[x]]
_collect_global_array(c, name, is_array, size) ==
    IF is_array /\ name /= None /\ size >= 0
    THEN [c EXCEPT !.global_array_sizes = DictSet(@, name, size)]
    ELSE c

TopVar(name, initialized, size) ==
    [op |-> "var", name |-> name, is_pointer |-> name \in Names, is_array |-> name \in ArrNames,
     initialized |-> initialized, size |-> size, loc |-> DeclLoc]
Func(fname, params, body) ==
    [op |-> "func", name |-> fname, params |-> params, body |-> body, loc |-> DeclLoc]

VisitTopVar(c, item) ==
    _collect_global_array(
        _check_pointer_initialization(c, item.name, item.is_pointer, item.initialized),
        item.name, item.is_array, item.size)

RECURSIVE WalkBody(_, _, _, _)
WalkBody(w, c, seed, body) ==
    IF body = <<>> THEN w
    ELSE WalkBody(Walk(w, c, seed, Head(body)), c, seed, Tail(body))

\* _check_function on a whole function: its frame after the walk.
_check_function(c, seed, item) ==
    WalkBody([fr |-> NewFrame(item.name, item.loc, item.params), guards |-> BodyGuards],
             c, seed, item.body).fr

\* run: st is [chk, issues].
RECURSIVE RunItems(_, _, _)
RunItems(st, seed, items) ==
    IF items = <<>> THEN st
    ELSE LET item == Head(items)
             f == _check_function(st.chk, seed, item)
             st1 == IF item.op = "var"
                    THEN [chk |-> VisitTopVar(st.chk, item),
                          issues |-> st.issues \o PointerInitializationIssues(item.name, item.is_pointer, item.initialized, item.loc)]
                    ELSE [chk |-> FinishChecker(st.chk, f),
                          issues |-> st.issues \o FinishFunction(f).issues]
         IN RunItems(st1, seed, Tail(items))

MemoryRun(c, seed, tu) ==
    RunItems([chk |-> ClearSummaries(c), issues |-> <<>>], seed, tu)


(***************************************************************************)
(* The sources the runner is given: translation units as the memory        *)
(* checker walks them, and what the three checkers that keep no state      *)
(* between runs (variable_checker.py, stdlib_helper.py,                    *)
(* numeric_control_checker.py) return for them.                            *)
(***************************************************************************)
Sources == {"leak.c", "ret2.c", "unsafe.c", "caller.c", "bad.c"}
Unknown == "<unknown>"              \* cursor_location: a cursor without a file

\* ASTParser.parse raises for a source the frontend cannot load.
Parses(src) == src /= "bad.c"

TranslationUnit(src) ==
    CASE src = "leak.c" ->
           \* int main(){ int *p = malloc(4);
           \*             return 0; }
           << Func("main", {}, << EvDecl("p", "other"), EvCall("malloc", <<>>),
                                  EvReturn({}, <<2, 1>>) >>) >>
      [] src = "ret2.c" ->
           \* int *f(void){ int *p; int *g;
           \*               return p ? p : g; }
           << Func("f", {}, << EvDecl("p", "none"), EvDecl("g", "none"),
                               EvReturn({"p", "g"}, <<2, 1>>) >>) >>
      [] src = "unsafe.c" ->
           \* int *g;
           \* int *f(void){ return g; }
           << TopVar("g", FALSE, -1),
              Func("f", {}, << EvReturn({"g"}, <<2, 1>>) >>) >>
      [] src = "caller.c" ->
           \* int *f(void);
           \* int main(){ int *p; p = f(); *p = 1; return 0; }
           << Func("f", {}, <<>>),
              Func("main", {}, << EvDecl("p", "none"), EvAssign("p", "f", "other"),
                                  EvCall("f", <<>>), EvAssign(None, None, "other"),
                                  EvUse("p", <<2, 1>>), EvReturn({}, <<2, 2>>) >>) >>
      [] OTHER -> <<>>

Finding(category, severity, kind, name, file, line, column) ==
    [category |-> category, severity |-> severity, message |-> <<kind, name, 0, 0>>,
     file |-> file, line |-> line, column |-> column, suggestion |-> TRUE]

VariableUsageRun(src) ==
    CASE src = "leak.c" -> << Finding("variable", "warning", "used_before_assignment", "x", src, 2, 5) >>
      [] src = "caller.c" -> << Finding("variable", "warning", "used_before_assignment", "p", src, 2, 3),
                                Finding("variable", "warning", "uninitialized", "v", src, 1, 1) >>
      [] OTHER -> <<>>

StdLibHelperRun(src) ==
    CASE src = "leak.c" -> << Finding("stdlib", "warning", "missing_include", "malloc", src, 1, 9),
                              Finding("stdlib", "error", "arity_mismatch", "printf", src, 2, 2) >>
      [] src = "caller.c" -> << Finding("stdlib", "warning", "missing_include", "printf", Unknown, 1, 0) >>
      [] OTHER -> <<>>

NumericControlRun(src) ==
    CASE src = "leak.c" -> << Finding("control-flow", "warning", "unreachable", "", src, 2, 4),
                              Finding("numeric", "error", "divide_by_zero", "", src, 1, 7) >>
      [] src = "caller.c" -> << Finding("control-flow", "warning", "infinite_loop", "", src, 1, 4) >>
      [] OTHER -> <<>>

\* The findings of a translation unit are located in its file.
InFile(found, src) == [i \in DOMAIN found |-> [found[i] EXCEPT !.file = src]]

(***************************************************************************)
(* runner.py                                                               *)
(***************************************************************************)
NoColumn == -1                       \* column = None

\* AnalyzerRunner.__init__: self.checkers, by Checker.name.
Checkers == <<"memory-safety", "variable-usage", "stdlib-helper", "numeric-control">>

\* checker.run(context): st is [chk, issues], the memory checker instance and
\* the list returned.
CheckerRun(name, c, seed, src) ==
    CASE name = "memory-safety" ->
           LET r == MemoryRun(c, seed, TranslationUnit(src))
           IN [chk |-> r.chk, issues |-> InFile(r.issues, src)]
      [] name = "variable-usage" -> [chk |-> c, issues |-> VariableUsageRun(src)]
      [] name = "stdlib-helper" -> [chk |-> c, issues |-> StdLibHelperRun(src)]
      [] name = "numeric-control" -> [chk |-> c, issues |-> NumericControlRun(src)]

\* str(path): the code points of the file names that occur.
PathStr(file) ==
    CASE file = "leak.c" -> <<108, 101, 97, 107, 46, 99>>
      [] file = "ret2.c" -> <<114, 101, 116, 50, 46, 99>>
      [] file = "unsafe.c" -> <<117, 110, 115, 97, 102, 101, 46, 99>>
      [] file = "caller.c" -> <<99, 97, 108, 108, 101, 114, 46, 99>>
      [] file = "bad.c" -> <<98, 97, 100, 46, 99>>
      [] file = "a.c" -> <<97, 46, 99>>
      [] file = Unknown -> <<60, 117, 110, 107, 110, 111, 119, 110, 62>>

severity_rank(severity) ==
    CASE severity = "error" -> 0
      [] severity = "warning" -> 1
      [] severity = "info" -> 2
      [] OTHER -> 3

\* A key without the severity rank.
_issue_sort_key_no_rank(issue) ==
    << 0,
       PathStr(issue.file),
       issue.line,
       IF issue.column = NoColumn THEN 0 ELSE issue.column >>

_issue_sort_key(issue) ==
    << severity_rank(issue.severity),
       PathStr(issue.file),
       issue.line,
       IF issue.column = NoColumn THEN 0 ELSE issue.column >>

\* Python's < on str (by code point) and on the key tuples.
RECURSIVE StrLess(_, _)
StrLess(s, t) ==
    IF t = <<>> THEN FALSE
    ELSE IF s = <<>> THEN TRUE
    ELSE IF Head(s) /= Head(t) THEN Head(s) < Head(t)
    ELSE StrLess(Tail(s), Tail(t))

KeyLess(a, b) ==
    \/ a[1] < b[1]
    \/ a[1] = b[1] /\ StrLess(a[2], b[2])
    \/ a[1] = b[1] /\ a[2] = b[2] /\ a[3] < b[3]
    \/ a[1] = b[1] /\ a[2] = b[2] /\ a[3] = b[3] /\ a[4] < b[4]

\* list.sort(key=_issue_sort_key): stable.
RECURSIVE InsertSorted(_, _)
InsertSorted(sorted, x) ==
    IF sorted = <<>> THEN <<x>>
    ELSE IF KeyLess(_issue_sort_key(x), _issue_sort_key(sorted[Len(sorted)]))
    THEN Append(InsertSorted(SubSeq(sorted, 1, Len(sorted) - 1), x), sorted[Len(sorted)])
    ELSE Append(sorted, x)

RECURSIVE SortIssues(_)
SortIssues(found) ==
    IF found = <<>> THEN <<>>
    ELSE InsertSorted(SortIssues(SubSeq(found, 1, Len(found) - 1)), found[Len(found)])

Report(src, found) == [source |-> src, issues |-> found]

\* A report without the finding.
ParseFailureReport_empty(src) == Report(src, <<>>)

\* analyze: the Report of a source that does not parse.
ParseFailureReport(src) ==
    Report(src, << [category |-> "infrastructure", severity |-> "error",
                    message |-> <<"parse_error", "", 0, 0>>,
                    file |-> src, line |-> 0, column |-> NoColumn, suggestion |-> FALSE] >>)

HasError(found) == \E i \in DOMAIN found : found[i].severity = "error"

\* A loop that is never left early.
StopAfter_never(cfg, found) == FALSE

\* analyze: the test that ends the loop over the checkers.
StopAfter(cfg, found) == cfg.stop_on_error /\ HasError(found)


(***************************************************************************)
(* report.py: serialization.                                               *)
(***************************************************************************)
IssueToDict(issue) ==
    LET data == [category |-> issue.category, severity |-> issue.severity,
                 message |-> issue.message, file |-> issue.file, line |-> issue.line]
        data1 == IF issue.column /= NoColumn THEN data @@ [column |-> issue.column] ELSE data
    IN IF issue.suggestion THEN data1 @@ [suggestion |-> TRUE] ELSE data1

severity_summary(found) ==
    [sev \in {found[i].severity : i \in DOMAIN found} |->
        Cardinality({i \in DOMAIN found : found[i].severity = sev})]

ReportToDict(r) ==
    [source |-> r.source,
     issues |-> [i \in DOMAIN r.issues |-> IssueToDict(r.issues[i])],
     summary |-> severity_summary(r.issues)]

NoReport == Report(None, <<>>)

(***************************************************************************)
(* utils.py: load_clang, a function under functools.lru_cache(maxsize=1),  *)
(* as the threads of one process call it.                                  *)
(***************************************************************************)
Threads == {1, 2, 3}
Handle == "clang.cindex"

\* A fresh process: nothing cached, libclang not loaded, no thread has called.
NewLoader(lib_path) ==
    [lib_path |-> lib_path,              \* os.getenv("LIBCLANG_PATH") is set
     cache |-> None,                     \* the lru_cache entry of the call ()
     loaded |-> FALSE,                   \* clang.cindex.Config.loaded
     bodies |-> 0,                       \* executions of the body started
     indexes |-> 0,                      \* cindex.Index.create() calls made
     pc |-> [t \in Threads |-> "idle"],
     got |-> [t \in Threads |-> None]]

\* No helper has been called.
NoUnit == [op |-> None]

(***************************************************************************)
(* State.                                                                  *)
(***************************************************************************)
VARIABLES
    hash_seed,      \* the interpreter process: its string-hash seed
    chk,            \* the MemorySafetyChecker instance (runner.checkers[0])
    mpc,            \* MemorySafetyChecker.run: "idle", "run" (top-level loop), "func"
    run_issues,     \* run: issues
    fr,             \* _check_function: its locals
    guards,         \* traverse: the guard sets of the enclosing recursion levels
    nodes,          \* cursors this checker instance has handled so far
    dropped,        \* what the last step held back or threw away: "dedup", "guard", "summaries"
    runs,           \* calls of run on this checker instance so far
    config,         \* AnalyzerRunner.config
    rpc,            \* AnalyzerRunner.analyze: "idle", "checking", "sorting", "done"
    source,         \* analyze: source
    issues,         \* analyze: issues
    ran,            \* analyze: the checkers whose run() was called, in call order
    report,         \* analyze: the Report returned
    seen,           \* the first serialized report of every (source, configuration)
    unit,           \* one call of a checker helper: its name, arguments and result
    clang           \* utils.load_clang: its cache, libclang's Config and the calling threads

mvars == <<mpc, run_issues, fr, guards, nodes, dropped, runs>>
rvars == <<config, rpc, source, issues, ran, report, seen>>
uvars == <<unit, clang>>
vars == <<hash_seed, chk, mpc, run_issues, fr, guards, nodes, dropped, runs,
          config, rpc, source, issues, ran, report, seen,
          unit, clang>>

CurGuards == TopOf(guards).g

(***************************************************************************)
(* MemorySafetyChecker.run, one cursor per step.                           *)
(***************************************************************************)
\* run is called: the summaries are cleared, the loop over the children of
\* the translation unit cursor starts.
MemRunStart ==
    /\ mpc = "idle" /\ nodes < MaxNodes
    /\ chk' = ClearSummaries(chk)
    /\ run_issues' = <<>>
    /\ mpc' = "run"
    /\ fr' = NoFrame
    /\ nodes' = nodes + 1
    /\ runs' = runs + 1
    /\ dropped' = IF chk /= ClearSummaries(chk) THEN {"summaries"} ELSE {}
    /\ UNCHANGED <<hash_seed, guards, rvars, uvars>>

MemTopVarDecl ==
    /\ mpc = "run" /\ nodes < MaxNodes
    /\ \E name \in Names \cup ArrNames, initialized \in BOOLEAN, size \in ArrSizes \cup {-1} :
         LET item == TopVar(name, initialized, size) IN
         /\ (item.is_pointer => size = -1)
         /\ (item.is_array => ~initialized)
         /\ chk' = VisitTopVar(chk, item)
         /\ run_issues' = run_issues \o PointerInitializationIssues(name, item.is_pointer, initialized, item.loc)
    /\ nodes' = nodes + 1
    /\ dropped' = {}
    /\ UNCHANGED <<hash_seed, mpc, fr, guards, runs, rvars, uvars>>

\* _check_function up to the call of traverse: the locals, the pointer
\* parameters.  (The children of a FUNCTION_DECL are its PARM_DECLs and its
\* body, so the loop over local declarations adds nothing here.)
MemFunctionEnter ==
    /\ mpc = "run" /\ nodes < MaxNodes
    /\ \E fname \in FuncNames, params \in SUBSET {"p"} :
         fr' = NewFrame(fname, DeclLoc, params)
    /\ guards' = BodyGuards
    /\ mpc' = "func"
    /\ nodes' = nodes + 1
    /\ dropped' = {}
    /\ UNCHANGED <<hash_seed, chk, run_issues, runs, rvars, uvars>>

\* The findings of one kind among a frame's issues.
OfKind(f, kind) == {i \in DOMAIN f.issues : f.issues[i].message[1] = kind}

\* What a visit leaves unreported: a finding the dedup sets hold back (the
\* visit would emit more on a frame whose reported_* sets are empty), a null
\* dereference the guards hold back (it would be emitted with no guards).
Unreported(w, c, seed, ev) ==
    LET unseen == [w EXCEPT !.fr.reported_uninitialized = {}, !.fr.reported_null = {},
                            !.fr.reported_uaf = {}, !.fr.reported_double_free = {}]
        unguarded == [w EXCEPT !.guards[Len(w.guards)].g = {}]
        after == Walk(w, c, seed, ev).fr
    IN IF ev.op \notin {"call", "use", "return", "subscript"} THEN {}
       ELSE (IF Len(Walk(unseen, c, seed, ev).fr.issues) > Len(after.issues)
             THEN {"dedup"} ELSE {})
            \cup
            (IF Cardinality(OfKind(Walk(unguarded, c, seed, ev).fr, "null_deref"))
                  > Cardinality(OfKind(after, "null_deref"))
             THEN {"guard"} ELSE {})

\* traverse visits node ev.
Visit(ev, seed) ==
    LET w == Walk([fr |-> fr, guards |-> guards], chk, seed, ev) IN
    /\ fr' = w.fr
    /\ guards' = w.guards
    /\ dropped' = Unreported([fr |-> fr, guards |-> guards], chk, seed, ev)
    /\ UNCHANGED <<hash_seed, chk, mpc, run_issues, runs, rvars, uvars>>

InFunction == mpc = "func" /\ nodes < MaxNodes

MemVarDecl ==
    /\ InFunction
    /\ \E name \in Names, init \in {"none", "null", "other"} :
         Visit(EvDecl(name, init), hash_seed)
    /\ nodes' = nodes + 1

MemAssign ==
    /\ InFunction
    /\ \E target \in Names \cup {None}, callee \in {None, "malloc", "f"},
          rhs_form \in {"addr", "null", "other"} :
         /\ (callee /= None => rhs_form /= "addr")
         /\ Visit(EvAssign(target, callee, rhs_form), hash_seed)
    /\ nodes' = nodes + 1

ArgLists == {<<>>} \cup {<<Arg(name, loc)>> : name \in Names \cup {None}, loc \in Locs}

MemCall ==
    /\ InFunction
    /\ \E callee \in {"malloc", "free", "f"}, args \in ArgLists :
         /\ (callee = "free" => Len(args) = 1)
         /\ (callee = "malloc" => args = <<>>)
         /\ Visit(EvCall(callee, args), hash_seed)
    /\ nodes' = nodes + 1

\* The children of a call that freed something have been walked.
MemLeaveCall ==
    /\ mpc = "func" /\ TopOf(guards).phase = "call"
    /\ Visit(EvLeave, hash_seed)
    /\ UNCHANGED nodes

MemPointerUse ==
    /\ InFunction
    /\ \E name \in Names \cup {None}, loc \in Locs :
         Visit(EvUse(name, loc), hash_seed)
    /\ nodes' = nodes + 1

\* The names of a return statement are visited in any order a set may have.
MemReturn ==
    /\ InFunction
    /\ \E S \in SUBSET Names, seed \in HashSeeds, loc \in Locs :
         Visit(EvReturn(S, loc), seed)
    /\ nodes' = nodes + 1

\* The index expressions: their tokens.
Indexes == {<<"1">>, <<"4">>, <<"0x4">>, <<"010">>, <<"-", "1">>, <<"i">>}
\* The first child of a subscript: a reference, or one under an implicit cast.
Bases == {Ref(n) : n \in ArrNames \cup {"p"}} \cup {Unexposed(Ref(n)) : n \in ArrNames}

MemSubscript ==
    /\ InFunction
    /\ \E base \in Bases, index \in Indexes, loc \in Locs :
         Visit(EvSubscript(base, index, loc), hash_seed)
    /\ nodes' = nodes + 1

MemArrayDecl ==
    /\ InFunction
    /\ \E name \in ArrNames, size \in ArrSizes :
         Visit(EvArrayDecl(name, size), hash_seed)
    /\ nodes' = nodes + 1

MemIfThen ==
    /\ InFunction
    /\ \E condition \in Conds :
         Visit(EvIf(condition), hash_seed)
    /\ nodes' = nodes + 1

MemIfElse ==
    /\ mpc = "func" /\ TopOf(guards).phase = "then"
    /\ Visit(EvElse, hash_seed)
    /\ UNCHANGED nodes

MemIfEnd ==
    /\ mpc = "func" /\ TopOf(guards).phase \in {"then", "else"}
    /\ Visit(EvEndIf, hash_seed)
    /\ UNCHANGED nodes

\* traverse has returned: the leak heuristic, the summaries, and back in run.
MemFunctionExit ==
    /\ mpc = "func" /\ Len(guards) = 1
    /\ fr' = FinishFunction(fr)
    /\ chk' = FinishChecker(chk, fr)
    /\ run_issues' = run_issues \o FinishFunction(fr).issues
    /\ mpc' = "run"
    /\ dropped' = {}
    /\ UNCHANGED <<hash_seed, guards, nodes, runs, rvars, uvars>>

\* run returns issues.
MemRunEnd ==
    /\ mpc = "run"
    /\ mpc' = "idle"
    /\ dropped' = {}
    /\ UNCHANGED <<hash_seed, chk, run_issues, fr, guards, nodes, runs, rvars, uvars>>

InitChecker ==
    /\ chk = NewChecker
    /\ mpc = "idle"
    /\ run_issues = <<>>
    /\ fr = NoFrame
    /\ guards = BodyGuards
    /\ nodes = 0
    /\ dropped = {}
    /\ runs = 0

InitUnits ==
    /\ unit = NoUnit
    /\ clang = NewLoader(FALSE)

InitAnalyze ==
    /\ rpc = "idle"
    /\ source = None
    /\ issues = <<>>
    /\ ran = <<>>
    /\ report = NoReport
    /\ seen = <<>>

InitMem ==
    /\ hash_seed = 0
    /\ config = [stop_on_error |-> FALSE]
    /\ InitChecker
    /\ InitAnalyze
    /\ InitUnits

NextMem ==
    \/ MemRunStart
    \/ MemTopVarDecl
    \/ MemFunctionEnter
    \/ MemVarDecl
    \/ MemAssign
    \/ MemCall
    \/ MemLeaveCall
    \/ MemPointerUse
    \/ MemReturn
    \/ MemSubscript
    \/ MemArrayDecl
    \/ MemIfThen
    \/ MemIfElse
    \/ MemIfEnd
    \/ MemFunctionExit
    \/ MemRunEnd

SpecMem == InitMem /\ [][NextMem]_vars

(***************************************************************************)
(* AnalyzerRunner.                                                         *)
(***************************************************************************)
Remember(s, src, cfg, r) ==
    IF <<src, cfg.stop_on_error>> \in DOMAIN s THEN s
    ELSE s @@ (<<src, cfg.stop_on_error>> :> ReportToDict(r))

\* A new interpreter process constructs its AnalyzerRunner.
NewProcess ==
    /\ rpc \in {"idle", "done"}
    /\ \E seed \in HashSeeds, stop \in BOOLEAN :
         /\ hash_seed' = seed
         /\ config' = [stop_on_error |-> stop]
    /\ chk' = NewChecker
    /\ rpc' = "idle"
    /\ UNCHANGED <<mvars, uvars, source, issues, ran, report, seen>>

\* AnalyzerRunner(config) is constructed again in the same process.
NewRunner ==
    /\ rpc \in {"idle", "done"}
    /\ \E stop \in BOOLEAN : config' = [stop_on_error |-> stop]
    /\ chk' = NewChecker
    /\ rpc' = "idle"
    /\ UNCHANGED <<hash_seed, mvars, uvars, source, issues, ran, report, seen>>

\* analyze(source) up to the loop over the checkers.
AnalyzeStart ==
    /\ rpc \in {"idle", "done"}
    /\ \E src \in Sources :
         /\ source' = src
         /\ issues' = <<>>
         /\ ran' = <<>>
         /\ IF Parses(src)
            THEN /\ rpc' = "checking"
                 /\ report' = NoReport
                 /\ seen' = seen
            ELSE /\ rpc' = "done"
                 /\ report' = ParseFailureReport(src)
                 /\ seen' = Remember(seen, src, config, ParseFailureReport(src))
    /\ UNCHANGED <<hash_seed, chk, mvars, uvars, config>>

\* One turn of the loop over self.checkers.
RunChecker ==
    /\ rpc = "checking"
    /\ LET name == Checkers[Len(ran) + 1]
           r == CheckerRun(name, chk, hash_seed, source)
           found == issues \o r.issues
       IN /\ chk' = r.chk
          /\ issues' = found
          /\ ran' = Append(ran, name)
          /\ rpc' = IF StopAfter(config, found) \/ Len(ran) + 1 = Len(Checkers)
                    THEN "sorting" ELSE "checking"
    /\ UNCHANGED <<hash_seed, mvars, uvars, config, source, report, seen>>

\* The loop is over: sort and return the Report.
AnalyzeFinish ==
    /\ rpc = "sorting"
    /\ report' = Report(source, SortIssues(issues))
    /\ seen' = Remember(seen, source, config, Report(source, SortIssues(issues)))
    /\ rpc' = "done"
    /\ UNCHANGED <<hash_seed, chk, mvars, uvars, config, source, issues, ran>>

InitRunner ==
    /\ hash_seed \in HashSeeds
    /\ config \in [stop_on_error : BOOLEAN]
    /\ InitChecker
    /\ InitAnalyze
    /\ InitUnits

NextRunner ==
    \/ NewProcess
    \/ NewRunner
    \/ AnalyzeStart
    \/ RunChecker
    \/ AnalyzeFinish

SpecRunner == InitRunner /\ [][NextRunner]_vars

(***************************************************************************)
(* The checkers that keep no state between runs, one visited node at a     *)
(* time: `unit` holds the node the loop of run is at and the issues the    *)
(* visit extends the list with, NoUnit between two visits.                 *)
(***************************************************************************)
UnitStep == UNCHANGED <<hash_seed, chk, mvars, rvars, clang>>

(***************************************************************************)
(* numeric_control_checker.py: NumericControlChecker.run on a              *)
(* BINARY_OPERATOR.                                                        *)
(***************************************************************************)
\* list.index: the position of the first element equal to t.
FirstIndex(tokens, t) ==
    CHOOSE i \in DOMAIN tokens : tokens[i] = t /\ \A j \in 1..(i - 1) : tokens[j] /= t

_build_division_issue(loc) ==
    Issue("numeric", "error", "divide_by_zero", None, 0, 0, SrcFile, loc)

_check_division(tokens, loc) ==
    IF ~Has(tokens, "/") THEN <<>>
    ELSE LET slash_index == FirstIndex(tokens, "/") IN
         IF slash_index + 1 <= Len(tokens) /\ tokens[slash_index + 1] = "0"
         THEN << _build_division_issue(loc) >>
         ELSE <<>>

\* The tokens of the binary operators: a op b and a op b op c.
Operands == {"x", "0", "1"}
Operators == {"/", "+"}
BinaryOperatorTokens ==
    {<<a, o, b>> : a \in Operands, o \in Operators, b \in Operands}
    \cup {<<l[1], o, l[2], q, r>> : l \in Operands \X Operands, o \in Operators,
                                   q \in Operators, r \in Operands}

NumericBinaryOperator ==
    /\ unit = NoUnit
    /\ \E tokens \in BinaryOperatorTokens, loc \in Locs :
         unit' = [op |-> "_check_division", tokens |-> tokens, loc |-> loc,
                  issues |-> _check_division(tokens, loc)]
    /\ UnitStep

(***************************************************************************)
(* stdlib_helper.py: StdLibHelperChecker.run on a CALL_EXPR.  A token is   *)
(* the sequence of its characters.                                         *)
(***************************************************************************)
MaxFormat == 4
Quote == "\""
PRINTF_SPECIFIERS ==
    {"d", "i", "u", "o", "x", "X", "f", "F", "e", "E", "g", "G", "a", "A", "c", "s", "p"}
REQUIRED_HEADERS ==
    [callee \in {"printf", "scanf", "fprintf", "sprintf", "snprintf", "malloc", "calloc",
                 "realloc", "free", "memcpy", "memset", "strlen"} |->
        IF callee \in {"printf", "scanf", "fprintf", "sprintf", "snprintf"} THEN "stdio.h"
        ELSE IF callee \in {"malloc", "calloc", "realloc", "free"} THEN "stdlib.h"
        ELSE "string.h"]

\* str.strip('"'): the quotes at both ends are removed, however many.
RECURSIVE LStrip(_)
LStrip(text) == IF text /= <<>> /\ Head(text) = Quote THEN LStrip(Tail(text)) ELSE text
RECURSIVE RStrip(_)
RStrip(text) ==
    IF text /= <<>> /\ text[Len(text)] = Quote THEN RStrip(SubSeq(text, 1, Len(text) - 1)) ELSE text
Strip(text) == RStrip(LStrip(text))

\* _extract_string_literal on the tokens of the first argument: <<fmt>> for
\* the literal text fmt, <<>> for None.
_extract_string_literal(tokens) ==
    IF tokens = <<>> THEN <<>>
    ELSE LET literal == tokens[1] IN
         IF literal /= <<>> /\ Head(literal) = Quote /\ literal[Len(literal)] = Quote
         THEN << Strip(literal) >>
         ELSE <<>>

\* _parse_format_string from position i (counted from 1) on.
RECURSIVE ScanSpecifier(_, _)
ScanSpecifier(fmt, i) ==
    IF i <= Len(fmt) /\ fmt[i] \notin PRINTF_SPECIFIERS THEN ScanSpecifier(fmt, i + 1) ELSE i
RECURSIVE ParseFrom(_, _)
ParseFrom(fmt, i) ==
    IF i > Len(fmt) THEN <<>>
    ELSE IF fmt[i] = "%" THEN
        IF i + 1 <= Len(fmt) /\ fmt[i + 1] = "%" THEN ParseFrom(fmt, i + 2)
        ELSE LET j == ScanSpecifier(fmt, i + 1) IN
             IF j <= Len(fmt) THEN << fmt[j] >> \o ParseFrom(fmt, j + 1)
             ELSE ParseFrom(fmt, j)
    ELSE ParseFrom(fmt, i + 1)
_parse_format_string(fmt) == ParseFrom(fmt, 1)

_build_include_issue(loc, callee, header) ==
    Issue("stdlib", "warning", "missing_include", callee, 0, 0, SrcFile, loc)
_build_arg_count_issue(loc, callee, expected, actual) ==
    Issue("stdlib", "error", "arity_mismatch", callee, expected, actual, SrcFile, loc)

\* _check_scanf_arguments: an argument is [is_pointer, tokens].
RECURSIVE _check_scanf_arguments(_, _)
_check_scanf_arguments(arguments, loc) ==
    IF arguments = <<>> THEN <<>>
    ELSE LET arg == Head(arguments)
             has_address_of == arg.tokens /= <<>> /\ arg.tokens[1] = <<"&">>
         IN (IF ~arg.is_pointer /\ ~has_address_of
             THEN << Issue("stdlib", "error", "scanf_argument", "scanf", 0, 0, SrcFile, loc) >>
             ELSE <<>>)
            \o _check_scanf_arguments(Tail(arguments), loc)

\* The part of the loop body for printf and scanf.
FormatIssues(callee, arguments, loc) ==
    IF arguments = <<>> THEN <<>>
    ELSE LET fmt_literal == _extract_string_literal(arguments[1].tokens) IN
         IF fmt_literal = <<>> \/ fmt_literal[1] = <<>> THEN <<>>      \* if not fmt_literal
         ELSE LET specifiers == _parse_format_string(fmt_literal[1])
                  value_arguments == Tail(arguments)
              IN IF Len(value_arguments) /= Len(specifiers)
                 THEN << _build_arg_count_issue(loc, callee, Len(specifiers), Len(value_arguments)) >>
                 ELSE IF callee = "scanf" THEN _check_scanf_arguments(value_arguments, loc)
                 ELSE <<>>

\* One CALL_EXPR of the loop in run.
VisitLibraryCall(callee, arguments, includes, loc) ==
    IF callee = None THEN <<>>
    ELSE (IF callee \in DOMAIN REQUIRED_HEADERS /\ REQUIRED_HEADERS[callee] \notin includes
          THEN << _build_include_issue(loc, callee, REQUIRED_HEADERS[callee]) >>
          ELSE <<>>)
         \o (IF callee \in {"printf", "scanf"} THEN FormatIssues(callee, arguments, loc) ELSE <<>>)

\* The arguments of the calls: the format texts, the first arguments (a
\* literal in its quotes, or the name fmt), the value arguments.
FormatChars == {"%", "d", "l"}
RECURSIVE Texts(_)
Texts(n) == IF n = 0 THEN {<<>>} ELSE Texts(n - 1) \cup {Append(t, ch) : t \in Texts(n - 1), ch \in FormatChars}
Literal(fmt) == [is_pointer |-> TRUE, tokens |-> << <<Quote>> \o fmt \o <<Quote>> >>]
NameArgument == [is_pointer |-> TRUE, tokens |-> << <<"f", "m", "t">> >>]
ValueArguments ==
    { [is_pointer |-> FALSE, tokens |-> << <<"&">>, <<"x">> >>],
      [is_pointer |-> FALSE, tokens |-> << <<"x">> >>],
      [is_pointer |-> TRUE, tokens |-> << <<"x">> >>] }
ValueLists == {<<>>} \cup {<<a>> : a \in ValueArguments} \cup {<<a, a>> : a \in ValueArguments}
ArgumentLists ==
    {<<>>} \cup {<<first>> \o rest : first \in {Literal(fmt) : fmt \in Texts(MaxFormat)} \cup {NameArgument},
                                    rest \in ValueLists}

StdlibCall ==
    /\ unit = NoUnit
    /\ \E callee \in {"printf", "scanf", "strlen", None}, arguments \in ArgumentLists,
          includes \in {{}, {"stdio.h"}} :
         unit' = [op |-> "library_call", callee |-> callee, arguments |-> arguments,
                  includes |-> includes, loc |-> DeclLoc,
                  issues |-> VisitLibraryCall(callee, arguments, includes, DeclLoc)]
    /\ UnitStep

(***************************************************************************)
(* config.py and report.py: a report of a runner with configuration cfg is *)
(* written out, as JSON (Report.to_dict) and as text (Report.format_text). *)
(***************************************************************************)
AnalyzerConfigs == [enable_suggestions : BOOLEAN, stop_on_error : BOOLEAN]

\* The dict of one issue in the output of a runner configured with cfg: the
\* configuration is not consulted.
EmitIssue(cfg, issue) == IssueToDict(issue)

\* Report.to_dict.
EmitDict(cfg, r) ==
    [source |-> r.source,
     issues |-> [i \in DOMAIN r.issues |-> EmitIssue(cfg, r.issues[i])],
     summary |-> severity_summary(r.issues)]

\* Report.format_text: the lines, each by what it shows.
RECURSIVE IssueLines(_, _)
IssueLines(cfg, found) ==
    IF found = <<>> THEN <<>>
    ELSE LET issue == Head(found)
             shown == EmitIssue(cfg, issue)
         IN << [kind |-> "issue", severity |-> issue.severity, category |-> issue.category,
                file |-> issue.file, line |-> issue.line, column |-> issue.column,
                message |-> issue.message] >>
            \o (IF "suggestion" \in DOMAIN shown
                THEN << [kind |-> "suggestion_title"], [kind |-> "suggestion_detail"] >>
                ELSE <<>>)
            \o IssueLines(cfg, Tail(found))
format_text(cfg, r) ==
    << [kind |-> "source", source |-> r.source],
       [kind |-> "summary", summary |-> severity_summary(r.issues)] >>
    \o (IF r.issues = <<>> THEN << [kind |-> "no_issues"] >> ELSE IssueLines(cfg, r.issues))

\* The reports written out: what analyze returns for a source that does not
\* parse, and sorted findings of the checkers.
EmittedIssues ==
    { _build_null_deref_issue(<<2, 1>>, "p"), _build_leak_issue(DeclLoc, "main", 1, 0),
      _build_division_issue(<<1, 1>>),
      Finding("variable", "warning", "uninitialized", "v", Unknown, 1, NoColumn) }
EmittedReports ==
    {ParseFailureReport("bad.c"), Report("leak.c", <<>>)}
    \cup {Report("leak.c", SortIssues(<<a>>)) : a \in EmittedIssues}
    \cup {Report("leak.c", SortIssues(<<a, b>>)) : a \in EmittedIssues, b \in EmittedIssues}

EmitReport ==
    /\ unit = NoUnit
    /\ \E cfg \in AnalyzerConfigs, r \in EmittedReports :
         unit' = [op |-> "emit", config |-> cfg, report |-> r,
                  json |-> EmitDict(cfg, r), text |-> format_text(cfg, r)]
    /\ UnitStep

\* The loop of run goes on to its next node; the output has been written.
NextNode ==
    /\ unit /= NoUnit
    /\ unit' = NoUnit
    /\ UnitStep

NextUnits ==
    \/ NumericBinaryOperator
    \/ StdlibCall
    \/ EmitReport
    \/ NextNode

SpecUnits == InitMem /\ [][NextUnits]_vars

(***************************************************************************)
(* utils.py: load_clang called by the threads of one process, one call per *)
(* thread.  The wrapper of functools.lru_cache looks the call up, calls    *)
(* the function on a miss without holding a lock, and stores the result;   *)
(* the interpreter may switch threads between any two of the steps below.  *)
(***************************************************************************)
LoadStep == UNCHANGED <<hash_seed, chk, mvars, rvars, unit>>

\* The wrapper is entered: a hit returns the cached handle, a miss enters
\* the body.
LoadCall(t) ==
    /\ clang.pc[t] = "idle"
    /\ clang' = IF clang.cache /= None
                THEN [clang EXCEPT !.pc[t] = "done", !.got[t] = clang.cache]
                ELSE [clang EXCEPT !.pc[t] = "import", !.bodies = @ + 1]
    /\ LoadStep

\* import clang.cindex as cindex
LoadImport(t) ==
    /\ clang.pc[t] = "import"
    /\ clang' = [clang EXCEPT !.pc[t] = "path"]
    /\ LoadStep

\* Config.set_library_file under `if lib_path`: it raises once libclang has
\* been loaded, and the exception leaves load_clang.
LoadSetLibraryFile(t) ==
    /\ clang.pc[t] = "path"
    /\ clang' = IF clang.lib_path /\ clang.loaded
                THEN [clang EXCEPT !.pc[t] = "raised"]
                ELSE [clang EXCEPT !.pc[t] = "index"]
    /\ LoadStep

\* cindex.Index.create(): libclang is loaded.
LoadCreateIndex(t) ==
    /\ clang.pc[t] = "index"
    /\ clang' = [clang EXCEPT !.pc[t] = "return", !.loaded = TRUE, !.indexes = @ + 1]
    /\ LoadStep

\* return cindex: the wrapper stores the result and hands it to the caller.
LoadReturn(t) ==
    /\ clang.pc[t] = "return"
    /\ clang' = [clang EXCEPT !.pc[t] = "done", !.got[t] = Handle, !.cache = Handle]
    /\ LoadStep

InitLoad ==
    /\ hash_seed = 0
    /\ config = [stop_on_error |-> FALSE]
    /\ InitChecker
    /\ InitAnalyze
    /\ unit = NoUnit
    /\ clang \in {NewLoader(lib_path) : lib_path \in BOOLEAN}

NextLoad ==
    \E t \in Threads :
        \/ LoadCall(t)
        \/ LoadImport(t)
        \/ LoadSetLibraryFile(t)
        \/ LoadCreateIndex(t)
        \/ LoadReturn(t)

SpecLoad == InitLoad /\ [][NextLoad]_vars

(***************************************************************************)
(* variable_checker.py: VariableUsageChecker._check_function, one node of  *)
(* the pre-order walk per step.  `unit` holds the sets and the issues of   *)
(* the call, and the names the walk has met as parameters, as left         *)
(* children and in declarations with an initializer.                       *)
(***************************************************************************)
VarNames == {"x", "y"}
ParamNames == {"n"}

\* cursor.referenced.kind of a reference, by the name referred to.
ReferencedKind(name) ==
    IF name \in VarNames THEN "VAR_DECL"
    ELSE IF name \in ParamNames THEN "PARM_DECL"
    ELSE "FUNCTION_DECL"

_build_used_before_assignment_issue(loc, name) ==
    Issue("variable", "warning", "used_before_assignment", name, 0, 0, SrcFile, loc)

\* DECL_REF_EXPR.
VarVisitDeclRef(u, name, loc) ==
    IF ReferencedKind(name) /= "VAR_DECL" THEN u
    ELSE IF name = None \/ name \in u.assigned \/ name \in u.reported THEN u
    ELSE [u EXCEPT !.issues = Append(@, _build_used_before_assignment_issue(loc, name)),
                   !.reported = @ \cup {name}]

\* VAR_DECL: children are the cursors under the declaration, "initializer"
\* for an initializer expression, "type" for the TYPE_REF of a typedef or
\* struct type and for the extent of an array.
VarVisitVarDecl(u, name, children) ==
    LET has_initializer == children /= {} IN
    IF name /= None /\ has_initializer THEN [u EXCEPT !.assigned = @ \cup {name}] ELSE u

\* BINARY_OPERATOR: left is its first child.
VarVisitBinaryOperator(u, left) ==
    IF left.kind = "DECL_REF_EXPR" /\ left.spelling /= None
       /\ ReferencedKind(left.spelling) = "VAR_DECL"
    THEN [u EXCEPT !.assigned = @ \cup {left.spelling}]
    ELSE u

\* The call starts: the sets are empty but for the parameters.
VarFunctionEnter ==
    /\ unit = NoUnit
    /\ \E params \in SUBSET ParamNames :
         unit' = [op |-> "variable_walk", assigned |-> params, reported |-> {}, issues |-> <<>>,
                  params |-> params, initialized |-> {}, lefts |-> {}]
    /\ UnitStep

InVariableWalk == unit.op = "variable_walk"

VarDeclNode ==
    /\ InVariableWalk
    /\ \E name \in VarNames, children \in SUBSET {"initializer", "type"} :
         unit' = [VarVisitVarDecl(unit, name, children) EXCEPT
                     !.initialized = IF "initializer" \in children THEN @ \cup {name} ELSE @]
    /\ UnitStep

VarBinaryOperatorNode ==
    /\ InVariableWalk
    /\ \E left \in {Ref(n) : n \in VarNames \cup ParamNames \cup {"f"}}
                   \cup {Unexposed(Ref(n)) : n \in VarNames} :
         unit' = [VarVisitBinaryOperator(unit, left) EXCEPT
                     !.lefts = IF left.kind = "DECL_REF_EXPR" /\ ReferencedKind(left.spelling) = "VAR_DECL"
                               THEN @ \cup {left.spelling} ELSE @]
    /\ UnitStep

VarDeclRefNode ==
    /\ InVariableWalk
    /\ \E name \in VarNames \cup ParamNames \cup {"f"}, loc \in Locs :
         unit' = VarVisitDeclRef(unit, name, loc)
    /\ UnitStep

\* _check_function returns issues.
VarFunctionExit ==
    /\ InVariableWalk
    /\ unit' = NoUnit
    /\ UnitStep

NextVar ==
    \/ VarFunctionEnter
    \/ VarDeclNode
    \/ VarBinaryOperatorNode
    \/ VarDeclRefNode
    \/ VarFunctionExit

SpecVar == InitMem /\ [][NextVar]_vars

(***************************************************************************)
(* numeric_control_checker.py: loops and unreachable code.  A cursor is    *)
(* given by its kind, its tokens, its children and its line; the regular   *)
(* expressions of the code are applied to the joined tokens, which is      *)
(* modelled token by token.                                                *)
(***************************************************************************)
Stmt(kind, tokens, children, line) ==
    [kind |-> kind, tokens |-> tokens, children |-> children, line |-> line]

\* [A-Za-z_][A-Za-z0-9_]* on a whole token.
Identifiers == {"i", "j", "n", "xi", "ix", "f", "a"}
\* A pattern {var} followed or preceded by an operator finds var at the end
\* or at the start of a longer identifier as well.
EndsWithName(t, var) == t = var \/ (var = "i" /\ t = "xi")
StartsWithName(t, var) == t = var \/ (var = "i" /\ t = "ix")
RelationalOps == {"<=", ">=", "<", ">"}
\* The tokens that hold one of the characters < > = .
ComparisonTokens == {"<", "<=", ">", ">=", "=", "==", "!=", "+=", "-=", "*=", "/=", "->"}

\* re.match(r"\s*([A-Za-z_]\w*)\s*(<=|>=|<|>)\s*(.+)", text): <<var, op>> or <<>>.
RelationalMatch(tokens) ==
    IF Len(tokens) >= 3 /\ tokens[1] \in Identifiers /\ tokens[2] \in RelationalOps
    THEN <<tokens[1], tokens[2]>>
    ELSE <<>>

\* The tokens from position k up to the next ";" ([^;]+).
RECURSIVE RhsTokens(_, _)
RhsTokens(tokens, k) ==
    IF k > Len(tokens) \/ tokens[k] = ";" THEN <<>>
    ELSE <<tokens[k]>> \o RhsTokens(tokens, k + 1)

\* text.find("continue"): the position of the first continue, 0 for -1.
ContinueIndex(tokens) == IF Has(tokens, "continue") THEN FirstIndex(tokens, "continue") ELSE 0
BeforeContinue(tokens, k) == ContinueIndex(tokens) = 0 \/ k < ContinueIndex(tokens)

\* The matches of (\+\+\s*{var}|{var}\s*\+\+): where they start.
StepMatches(tokens, var, op) ==
    {k \in 1..(Len(tokens) - 1) :
        \/ tokens[k] = op /\ StartsWithName(tokens[k + 1], var)
        \/ EndsWithName(tokens[k], var) /\ tokens[k + 1] = op}

\* _variable_modified; body is the body cursor, <<>> for None.
_variable_modified(body, var) ==
    IF body = <<>> THEN FALSE
    ELSE LET tokens == body[1].tokens IN
         IF tokens = <<>> THEN FALSE
         ELSE \/ \E k \in StepMatches(tokens, var, "++") : BeforeContinue(tokens, k)
              \/ \E k \in StepMatches(tokens, var, "--") : BeforeContinue(tokens, k)
              \/ \E k \in 1..(Len(tokens) - 2) :
                     /\ EndsWithName(tokens[k], var)
                     /\ tokens[k + 1] \in {"+=", "-=", "*=", "/="}
                     /\ BeforeContinue(tokens, k)
                     /\ RhsTokens(tokens, k + 2) \notin {<<"0">>, <<"0.0">>, <<"0f">>, <<"0F">>}
              \/ \E k \in 1..(Len(tokens) - 2) :
                     /\ EndsWithName(tokens[k], var)
                     /\ BeforeContinue(tokens, k)
                     /\ \/ tokens[k + 1] = "=="       \* {var}\s*= and a right-hand side "= ..."
                        \/ tokens[k + 1] = "=" /\ RhsTokens(tokens, k + 2) /= <<var>>

\* _analyze_increment; increment is the cursor, <<>> for None.
_analyze_increment(var, increment) ==
    LET tokens == IF increment = <<>> THEN <<>> ELSE increment[1].tokens
        compound == {k \in 1..(Len(tokens) - 2) :
                        EndsWithName(tokens[k], var) /\ tokens[k + 1] \in {"+=", "-="}}
        assign == {k \in 1..(Len(tokens) - 4) :
                      /\ EndsWithName(tokens[k], var) /\ tokens[k + 1] = "="
                      /\ tokens[k + 2] = var /\ tokens[k + 3] \in {"+", "-"}}
    IN IF tokens = <<>> THEN "none"
       ELSE IF StepMatches(tokens, var, "++") /= {} THEN "up"
       ELSE IF StepMatches(tokens, var, "--") /= {} THEN "down"
       ELSE IF compound /= {} THEN
            LET k == CHOOSE c \in compound : \A o \in compound : c <= o
                plus == tokens[k + 1] = "+="
            IN IF tokens[k + 2] = "-" THEN (IF plus THEN "down" ELSE "up")
               ELSE (IF plus THEN "up" ELSE "down")
       ELSE IF assign /= {} THEN
            LET k == CHOOSE c \in assign : \A o \in assign : c <= o
                plus == tokens[k + 3] = "+"
            IN IF tokens[k + 4] = "-" THEN (IF plus THEN "down" ELSE "up")
               ELSE (IF plus THEN "up" ELSE "down")
       ELSE "none"

\* _extract_condition_variable: the symbol, None for none.
_extract_condition_variable(tokens) ==
    LET symbol == IF tokens /= <<>> /\ tokens[1] \in Identifiers THEN tokens[1]
                  ELSE IF Len(tokens) >= 2 /\ tokens[1] = "(" /\ tokens[2] \in Identifiers THEN tokens[2]
                  ELSE None
    IN IF tokens = <<>> \/ symbol = None THEN None
       ELSE IF TokenSet(tokens) \cap ComparisonTokens /= {} THEN None
       ELSE symbol

\* _split_while_children: <<condition, body>>, each <<cursor>> or <<>>.
RECURSIVE SplitWhile(_, _)
SplitWhile(children, acc) ==
    IF children = <<>> THEN acc
    ELSE LET child == Head(children) IN
         SplitWhile(Tail(children),
                    IF child.kind = "COMPOUND_STMT" THEN <<acc[1], <<child>> >>
                    ELSE IF acc[1] = <<>> THEN << <<child>>, acc[2] >>
                    ELSE acc)
_split_while_children(cursor) == SplitWhile(cursor.children, << <<>>, <<>> >>)

\* _split_for_children: <<init, condition, increment, body>>.
RECURSIVE SplitFor(_, _)
SplitFor(children, acc) ==
    IF children = <<>> THEN acc
    ELSE LET child == Head(children) IN
         SplitFor(Tail(children),
                  IF child.kind = "COMPOUND_STMT" THEN [acc EXCEPT ![4] = <<child>>]
                  ELSE IF acc[1] = <<>> THEN [acc EXCEPT ![1] = <<child>>]
                  ELSE IF acc[2] = <<>> THEN [acc EXCEPT ![2] = <<child>>]
                  ELSE IF acc[3] = <<>> THEN [acc EXCEPT ![3] = <<child>>]
                  ELSE acc)
_split_for_children(cursor) == SplitFor(cursor.children, << <<>>, <<>>, <<>>, <<>> >>)

_loop_is_definitely_infinite(cursor) ==
    IF cursor.kind = "WHILE_STMT" THEN
        LET parts == _split_while_children(cursor)
            condition == IF parts[1] = <<>> THEN <<>> ELSE parts[1][1].tokens
            simple_var == _extract_condition_variable(condition)
            relational == RelationalMatch(condition)
        IN IF condition \in {<<"1">>, <<"(", "1", ")">>, <<"true">>, <<"(", "true", ")">>} THEN TRUE
           ELSE IF simple_var /= None /\ ~_variable_modified(parts[2], simple_var) THEN TRUE
           ELSE IF relational /= <<>> /\ ~_variable_modified(parts[2], relational[1]) THEN TRUE
           ELSE FALSE
    ELSE IF cursor.kind = "FOR_STMT" THEN
        LET parts == _split_for_children(cursor)
            cond == IF parts[2] = <<>> THEN <<>> ELSE parts[2][1].tokens
            relational == RelationalMatch(cond)
        IN IF cond = <<>> THEN TRUE
           ELSE IF cond \in {<<"1">>, <<"true">>} THEN TRUE
           ELSE IF Has(cond, "!=") \/ Has(cond, "==") THEN TRUE
           ELSE IF relational /= <<>> THEN
                LET direction == _analyze_increment(relational[1], parts[3]) IN
                \/ direction = "none"
                \/ direction = "up" /\ relational[2] \in {">", ">="}
                \/ direction = "down" /\ relational[2] \in {"<", "<="}
           ELSE FALSE
    ELSE FALSE

\* _is_reachable: parent is cursor.semantic_parent, <<>> for None.
RECURSIVE ReachableAmong(_, _)
ReachableAmong(siblings, cursor) ==
    IF siblings = <<>> THEN TRUE
    ELSE LET child == Head(siblings) IN
         IF child = cursor THEN TRUE
         ELSE IF child.kind \in {"RETURN_STMT", "BREAK_STMT"} THEN FALSE
         ELSE IF child.kind \in {"WHILE_STMT", "FOR_STMT"} /\ _loop_is_definitely_infinite(child) THEN FALSE
         ELSE ReachableAmong(Tail(siblings), cursor)
_is_reachable(cursor, parent) ==
    IF parent = <<>> THEN TRUE ELSE ReachableAmong(parent[1].children, cursor)

_build_loop_issue(cursor) ==
    Issue("control-flow", "warning", "infinite_loop", None, 0, 0, SrcFile, <<cursor.line, 1>>)

_check_loop(cursor, parent) ==
    IF ~_is_reachable(cursor, parent) THEN <<>>
    ELSE IF _loop_is_definitely_infinite(cursor) THEN << _build_loop_issue(cursor) >>
    ELSE <<>>

\* _check_unreachable over the children of a compound statement.
_build_unreachable_issue(child) ==
    Issue("control-flow", "warning", "unreachable", None, 0, 0, SrcFile, <<child.line, 1>>)
TerminalKinds == {"RETURN_STMT", "BREAK_STMT", "CONTINUE_STMT"}
RECURSIVE UnreachableFrom(_, _)
UnreachableFrom(children, encountered_terminal) ==
    IF children = <<>> THEN <<>>
    ELSE IF encountered_terminal THEN << _build_unreachable_issue(Head(children)) >>
    ELSE UnreachableFrom(Tail(children), Head(children).kind \in TerminalKinds)
\* A warning for every child that follows a terminal statement.
RECURSIVE UnreachableAll(_, _)
UnreachableAll(children, encountered_terminal) ==
    IF children = <<>> THEN <<>>
    ELSE (IF encountered_terminal THEN << _build_unreachable_issue(Head(children)) >> ELSE <<>>)
         \o UnreachableAll(Tail(children), encountered_terminal \/ Head(children).kind \in TerminalKinds)
_check_unreachable_every_child(cursor) == UnreachableAll(cursor.children, FALSE)
_check_unreachable(cursor) == UnreachableFrom(cursor.children, FALSE)

\* The loops handed to the checker.  A clause that the source omits has no
\* child cursor; the body is a compound statement or a single statement.
MaxChildren == 3
Clause(tokens) == Stmt("BINARY_OPERATOR", tokens, <<>>, 2)
Optional(set) == {<<>>} \cup {<<c>> : c \in set}
ForInits == Optional({Clause(<<"i", "=", "0">>)})
ForConds == Optional({Clause(<<"i", "<", "n">>), Clause(<<"i", "<=", "n">>),
                      Clause(<<"i", ">", "0">>), Clause(<<"i", ">=", "0">>)})
ForIncs == Optional({Clause(<<"i", "++">>), Clause(<<"i", "--">>), Clause(<<"i", "+=", "1">>),
                     Clause(<<"i", "-=", "1">>), Clause(<<"i", "=", "i", "+", "1">>),
                     Clause(<<"j", "++">>)})
Statements == {<<>>, <<"i", "++", ";">>, <<"++", "i", ";">>, <<"i", "--", ";">>,
               <<"xi", "++", ";">>, <<"++", "ix", ";">>, <<"j", "++", ";">>,
               <<"i", "+=", "1", ";">>, <<"i", "+=", "0", ";">>, <<"i", "*=", "0", ";">>,
               <<"i", "=", "0", ";">>, <<"i", "=", "i", ";">>, <<"i", "=", "(", "i", ")", ";">>,
               <<"xi", "=", "1", ";">>, <<"if", "(", "i", "==", "0", ")", "f", "(", ")", ";">>,
               <<"continue", ";", "i", "++", ";">>, <<"i", "++", ";", "continue", ";">>}
Block(statements) == Stmt("COMPOUND_STMT", <<"{">> \o statements \o <<"}">>, <<>>, 2)
Single(statements) == Stmt("UNARY_OPERATOR", statements, <<>>, 2)
Bodies == {Block(t) : t \in Statements} \cup {Single(t) : t \in Statements \ {<<>>}}
ForBodies == {Block(<<>>), Block(<<"i", "++", ";">>), Single(<<"i", "++", ";">>)}
WhileConds == {<<"i">>, <<"(", "i", ")">>, <<"i", "<", "n">>, <<"1">>, <<"!", "i">>,
               <<"f", "(", "n", ")">>, <<"i", "--">>, <<"a", "[", "i", "]">>}
ForStmt(init, cond, inc, body) ==
    Stmt("FOR_STMT", <<>>, init \o cond \o inc \o <<body>>, 2)
WhileStmt(cond, body) ==
    Stmt("WHILE_STMT", <<>>, <<Clause(cond), body>>, 2)
\* A loop as written, next to the cursor the frontend makes of it.
Loop(cursor, init, cond, inc, body) ==
    [cursor |-> cursor, init |-> init, cond |-> cond, inc |-> inc, body |-> body]
Loops == {Loop(ForStmt(init, cond, inc, body), init, cond, inc, <<body>>) :
              init \in ForInits, cond \in ForConds, inc \in ForIncs, body \in ForBodies}
         \cup {Loop(WhileStmt(cond, body), <<>>, <<Clause(cond)>>, <<>>, <<body>>) :
                   cond \in WhileConds, body \in Bodies}

\* What stands before the loop in its block, and the cursor that
\* semantic_parent answers for a statement: the declaration that holds it.
Earlier(kind, tokens, children) == Stmt(kind, tokens, children, 1)
BeforeLoop == {<<>>,
               <<Earlier("RETURN_STMT", <<"return", ";">>, <<>>)>>,
               <<Earlier("BREAK_STMT", <<"break", ";">>, <<>>)>>,
               <<Earlier("CALL_EXPR", <<"f", "(", ")">>, <<>>)>>,
               <<Earlier("WHILE_STMT", <<>>,
                         <<Stmt("INTEGER_LITERAL", <<"1">>, <<>>, 1), Stmt("COMPOUND_STMT", <<"{", "}">>, <<>>, 1)>>)>>}
Parameters == {<<>>, <<Stmt("PARM_DECL", <<"int", "n">>, <<>>, 1)>>}
FunctionDecl(parameters, block) ==
    Stmt("FUNCTION_DECL", <<>>, parameters \o <<Stmt("COMPOUND_STMT", <<>>, block, 1)>>, 1)

\* run, the WHILE_STMT and FOR_STMT case.
LoopNode ==
    /\ unit = NoUnit
    /\ \E loop \in Loops, before \in BeforeLoop, parameters \in Parameters :
          LET parent == FunctionDecl(parameters, before \o <<loop.cursor>>) IN
          unit' = [op |-> "_check_loop", loop |-> loop, before |-> before,
                   parent |-> parent, issues |-> _check_loop(loop.cursor, <<parent>>)]
    /\ UnitStep

\* _variable_modified on a loop body.
BodyNode ==
    /\ unit = NoUnit
    /\ \E body \in Optional(Bodies), var \in {"i"} :
          unit' = [op |-> "_variable_modified", body |-> body, var |-> var,
                   modified |-> _variable_modified(body, var)]
    /\ UnitStep

\* run, the COMPOUND_STMT case.
ChildKinds == TerminalKinds \cup {"CALL_EXPR"}
RECURSIVE ChildLists(_)
ChildLists(n) ==
    IF n = 0 THEN {<<>>}
    ELSE ChildLists(n - 1)
         \cup {Append(l, Stmt(k, <<>>, <<>>, Len(l) + 1)) : l \in {c \in ChildLists(n - 1) : Len(c) = n - 1}, k \in ChildKinds}
CompoundNode ==
    /\ unit = NoUnit
    /\ \E children \in ChildLists(MaxChildren) :
          LET cursor == Stmt("COMPOUND_STMT", <<>>, children, 1) IN
          unit' = [op |-> "_check_unreachable", cursor |-> cursor, issues |-> _check_unreachable(cursor)]
    /\ UnitStep

NextLoops == LoopNode \/ BodyNode \/ CompoundNode \/ NextNode
SpecLoops == InitMem /\ [][NextLoops]_vars

(***************************************************************************)
(* Properties.                                                             *)
(***************************************************************************)

\* The order the specification states for the findings of a report.
StatedRank(severity) ==
    IF severity = "error" THEN 0
    ELSE IF severity = "warning" THEN 1
    ELSE IF severity = "info" THEN 2
    ELSE 3

StatedKey(issue) ==
    << StatedRank(issue.severity), PathStr(issue.file), issue.line,
       IF issue.column = NoColumn \/ issue.column = 0 THEN 0 ELSE issue.column >>

\* C1: in every Report returned by analyze, for any two findings a before b,
\* the key (severity_rank, str(file), line, column or 0) of a is
\* lexicographically <= that of b, with error=0, warning=1, info=2, other=3.
C1_ReportSorted ==
    rpc = "done" =>
        \A i, j \in DOMAIN report.issues :
            i < j => ~KeyLess(StatedKey(report.issues[j]), StatedKey(report.issues[i]))

\* C1 witness: a returned report of several findings of both severities that
\* the checkers produced in another order.
C1_Witness ==
    /\ rpc = "done"
    /\ Len(report.issues) >= 4
    /\ report.issues /= issues
    /\ \E i, j \in DOMAIN report.issues :
         /\ report.issues[i].severity = "error"
         /\ report.issues[j].severity = "warning"

\* The same findings, in any order.
SameFindings(a, b) ==
    /\ Len(a) = Len(b)
    /\ \A x \in {a[i] : i \in DOMAIN a} \cup {b[i] : i \in DOMAIN b} :
         Cardinality({i \in DOMAIN a : a[i] = x}) = Cardinality({i \in DOMAIN b : b[i] = x})

IsPrefix(a, b) == Len(a) <= Len(b) /\ SubSeq(b, 1, Len(a)) = a

\* C2: the checkers run in the order Memory, Variable, Stdlib,
\* Numeric/Control; with stop_on_error set, checker k+1 runs only if the
\* findings collected from checkers 1..k hold no error, and everything a
\* checker returned is kept (also in the report); with stop_on_error unset
\* all four run.
C2_CheckerOrder ==
    [][ /\ ran' /= ran =>
            \/ ran' = <<>>
            \/ /\ Len(ran) < Len(Checkers)
               /\ ran' = Append(ran, Checkers[Len(ran) + 1])
               /\ (config.stop_on_error /\ Len(ran) >= 1 => ~HasError(issues))
               /\ IsPrefix(issues, issues')
               /\ issues' = issues \o CheckerRun(Checkers[Len(ran) + 1], chk, hash_seed, source).issues
        /\ (rpc' = "done" /\ rpc = "sorting") =>
            /\ SameFindings(report'.issues, issues)
            /\ (~config.stop_on_error => ran = Checkers)
      ]_vars

\* C2 witness: with stop_on_error set an analysis ended after the third
\* checker, whose error and warning are both in the report.
C2_Witness ==
    /\ rpc = "done"
    /\ config.stop_on_error
    /\ ran = SubSeq(Checkers, 1, 3)
    /\ \E i, j \in DOMAIN report.issues :
         /\ report.issues[i].category = "stdlib" /\ report.issues[i].severity = "error"
         /\ report.issues[j].category = "stdlib" /\ report.issues[j].severity = "warning"

\* C3: when the frontend raises while parsing, analyze returns a Report of
\* exactly one finding, with category infrastructure, severity error and
\* line 0, and no checker runs.
C3_ParseFailure ==
    /\ rpc \in {"checking", "sorting"} => Parses(source)
    /\ (rpc = "done" /\ ~Parses(source)) =>
         /\ ran = <<>>
         /\ issues = <<>>
         /\ report.source = source
         /\ Len(report.issues) = 1
         /\ report.issues[1].category = "infrastructure"
         /\ report.issues[1].severity = "error"
         /\ report.issues[1].line = 0

\* C3 witness: the analysis of a source that does not parse has returned,
\* on a runner that analyzed other sources before.
C3_Witness ==
    /\ rpc = "done"
    /\ ~Parses(source)
    /\ Len(report.issues) = 1
    /\ \E k \in DOMAIN seen : Parses(k[1])

\* C4: analyzing the same source twice with the same configuration yields
\* identical serialized reports: every report returned equals the first one
\* returned for that source and configuration.
C4_SameReport ==
    rpc = "done" => ReportToDict(report) = seen[<<source, config.stop_on_error>>]

FindingKinds == {"uninitialized_use", "null_deref", "use_after_free", "double_free"}

\* C5: for every function the memory checker analyzes, at most one finding
\* of each kind (uninitialized use, null dereference, use-after-free, double
\* free) is emitted per (identifier, line, column).
C5_OnePerKindAndLocation ==
    \A i, j \in DOMAIN fr.issues :
        ( /\ i /= j
          /\ fr.issues[i].message[1] \in FindingKinds
          /\ fr.issues[i].message[1] = fr.issues[j].message[1]
          /\ fr.issues[i].message[2] = fr.issues[j].message[2]
          /\ fr.issues[i].line = fr.issues[j].line )
        => fr.issues[i].column /= fr.issues[j].column

\* C5 witness: a pointer-use check ran again for an identifier at a location
\* where its finding had been emitted, and the dedup set held it back.
C5_Witness ==
    /\ mpc = "func"
    /\ "dedup" \in dropped
    /\ fr.issues /= <<>>

\* How many of the lattice sets hold an identifier.
StatesOf(f, name) ==
    (IF name \in f.local_uninitialized THEN 1 ELSE 0)
    + (IF name \in f.pointer_null THEN 1 ELSE 0)
    + (IF name \in f.freed_pointers THEN 1 ELSE 0)

C7_SummariesClearedThenGrow ==
    [][ /\ (mpc = "idle" /\ mpc' = "run") =>
            /\ chk'.global_uninitialized = {}
            /\ DOMAIN chk'.global_array_sizes = {}
            /\ chk'.leaky_functions = {}
            /\ chk'.unsafe_pointer_returners = {}
        /\ mpc /= "idle" =>
            /\ chk.global_uninitialized \subseteq chk'.global_uninitialized
            /\ DOMAIN chk.global_array_sizes \subseteq DOMAIN chk'.global_array_sizes
            /\ chk.leaky_functions \subseteq chk'.leaky_functions
            /\ chk.unsafe_pointer_returners \subseteq chk'.unsafe_pointer_returners
      ]_vars

\* C7 witness: a second run on the same instance has started, and its start
\* threw away what the run before had collected.
C7_Witness ==
    /\ runs >= 2
    /\ mpc = "run"
    /\ "summaries" \in dropped
    /\ chk = NewChecker

\* The point the walk is at, and the findings of one kind for one
\* identifier at one location.
Here == [fr |-> fr, guards |-> guards]
After(ev) == Walk(Here, chk, hash_seed, ev)
At(f, kind, name, loc) ==
    {i \in OfKind(f, kind) : /\ f.issues[i].message[2] = name
                             /\ f.issues[i].line = loc[1]
                             /\ f.issues[i].column = loc[2]}
NewOfKind(f, kind) == {i \in OfKind(f, kind) : i > Len(fr.issues)}

\* C8: a call free(x) made while x is in FREED leaves exactly one double-free
\* error at that call and emits no use-after-free finding for the argument;
\* a call free(x) made while x is not in FREED emits no double-free finding.
C8_DoubleFree ==
    mpc = "func" =>
        \A x \in Names, loc \in Locs :
            LET after == After(EvCall("free", <<Arg(x, loc)>>)).fr IN
            /\ IsPrefix(fr.issues, after.issues)
            /\ x \in after.freed_pointers
            /\ NewOfKind(after, "use_after_free") = {}
            /\ IF x \in fr.freed_pointers
               THEN /\ Cardinality(At(after, "double_free", x, loc)) = 1
                    /\ NewOfKind(after, "double_free") \subseteq At(after, "double_free", x, loc)
                    /\ \A i \in At(after, "double_free", x, loc) : after.issues[i].severity = "error"
                    /\ (<<x, loc[1], loc[2]>> \notin fr.reported_double_free
                            => Cardinality(NewOfKind(after, "double_free")) = 1)
               ELSE NewOfKind(after, "double_free") = {}

\* C8 witness: malloc; free(p); free(p) has been walked: one double-free
\* error, for p, and no use-after-free finding.
C8_Witness ==
    /\ mpc = "func"
    /\ fr.allocation_calls = 1
    /\ fr.free_calls = 2
    /\ "p" \in fr.freed_pointers
    /\ Cardinality(OfKind(fr, "double_free")) = 1
    /\ \E loc \in Locs : At(fr, "double_free", "p", loc) /= {}
    /\ OfKind(fr, "use_after_free") = {}
    /\ Len(fr.issues) = 1

\* The pointers the specification says a condition proves non-null: bare p,
\* p != NULL / 0 / nullptr in either operand order, conjunctions of these.
RECURSIVE Bare(_)
Bare(c) ==
    IF c.kind \in {"PAREN_EXPR", "UNEXPOSED_EXPR"} THEN Bare(c.children[1]) ELSE c
IsNullLiteral(c) == Bare(c).kind = "LITERAL" /\ Bare(c).tokens[1] \in {"NULL", "0", "nullptr"}
OperatorOf(c) == c.tokens[Len(c.children[1].tokens) + 1]
RECURSIVE ProvenNonNull(_)
ProvenNonNull(c) ==
    LET b == Bare(c) IN
    IF b.kind = "DECL_REF_EXPR" THEN {b.spelling}
    ELSE IF b.kind = "BINARY_OPERATOR" /\ OperatorOf(b) = "&&"
    THEN ProvenNonNull(b.children[1]) \cup ProvenNonNull(b.children[2])
    ELSE IF b.kind = "BINARY_OPERATOR" /\ OperatorOf(b) = "!="
    THEN IF Bare(b.children[1]).kind = "DECL_REF_EXPR" /\ IsNullLiteral(b.children[2])
         THEN {Bare(b.children[1]).spelling}
         ELSE IF Bare(b.children[2]).kind = "DECL_REF_EXPR" /\ IsNullLiteral(b.children[1])
         THEN {Bare(b.children[2]).spelling}
         ELSE {}
    ELSE {}

\* C9: the pointers an if condition proves non-null are guarded in the
\* then-branch, where dereferencing a NULL_VALUED guarded pointer emits no
\* null-dereference finding; the else-branch and the statements after the
\* if are walked with exactly the guard set in force before the if.
C9_GuardsOnlyInThenBranch ==
    mpc = "func" =>
        /\ \A condition \in Conds :
             LET then == After(EvIf(condition)) IN
             /\ then.fr = fr
             /\ PopOf(then.guards) = guards
             /\ TopOf(then.guards).phase = "then"
             /\ CurGuards \subseteq TopOf(then.guards).g
             /\ (ProvenNonNull(condition) \cap fr.pointer_vars) \subseteq TopOf(then.guards).g
             /\ TopOf(then.guards).g \subseteq CurGuards \cup fr.pointer_vars
        /\ \A p \in CurGuards, loc \in Locs :
             At(After(EvUse(p, loc)).fr, "null_deref", p, loc) = At(fr, "null_deref", p, loc)
        /\ \A p \in Names, loc \in Locs :
             After(EvUse(p, loc)).guards = guards
        /\ TopOf(guards).phase = "then" =>
             /\ After(EvElse).fr = fr
             /\ PopOf(After(EvElse).guards) = PopOf(guards)
             /\ TopOf(After(EvElse).guards).g = TopOf(PopOf(guards)).g
        /\ TopOf(guards).phase \in {"then", "else"} =>
             /\ After(EvEndIf).fr = fr
             /\ After(EvEndIf).guards = PopOf(guards)

\* C9 witness: in a then-branch a dereference of a NULL_VALUED pointer was
\* walked and the guards held its null-dereference finding back.
C9_Witness ==
    /\ mpc = "func"
    /\ TopOf(guards).phase = "then"
    /\ "guard" \in dropped
    /\ \E p \in CurGuards : p \in fr.pointer_null /\ p \notin fr.freed_pointers
    /\ OfKind(fr, "null_deref") = {}

\* C10: a possible-leak warning is emitted for a function iff its walk met
\* more malloc/calloc/realloc calls than free calls; there is exactly one,
\* it reports both counts, and the function's name is added to
\* leaky_functions; otherwise there is no leak finding and the name is not
\* added.
C10_LeakIffMoreAllocations ==
    /\ mpc = "func" =>
         /\ OfKind(fr, "leak") = {}
         /\ \A callee \in AllocNames \cup {"free", "f"},
               args \in {<<>>, <<Arg("p", <<1, 1>>)>>} :
              LET after == After(EvCall(callee, args)).fr IN
              /\ after.allocation_calls = fr.allocation_calls + (IF callee \in AllocNames THEN 1 ELSE 0)
              /\ after.free_calls = fr.free_calls + (IF callee = "free" THEN 1 ELSE 0)
         /\ \A ev \in {EvDecl("p", "other"), EvAssign("p", "malloc", "other"),
                       EvUse("p", <<1, 1>>), EvReturn({"p"}, <<1, 1>>), EvIf(Read("p"))} :
              /\ After(ev).fr.allocation_calls = fr.allocation_calls
              /\ After(ev).fr.free_calls = fr.free_calls
         /\ FinishChecker(chk, fr).leaky_functions =
                IF fr.allocation_calls > fr.free_calls
                THEN chk.leaky_functions \cup {fr.fn}
                ELSE chk.leaky_functions
    /\ (mpc = "run" /\ fr.fn /= None) =>
         /\ Cardinality(OfKind(fr, "leak")) = IF fr.allocation_calls > fr.free_calls THEN 1 ELSE 0
         /\ \A i \in DOMAIN fr.issues : \E j \in DOMAIN run_issues : run_issues[j] = fr.issues[i]
         /\ \A i \in OfKind(fr, "leak") :
              /\ fr.issues[i].message = <<"leak", fr.fn, fr.allocation_calls, fr.free_calls>>
              /\ fr.issues[i].severity = "warning"
              /\ fr.fn \in chk.leaky_functions

\* C10 witness: a function with two allocations and one free has been
\* analyzed: one leak warning reporting 2 and 1, its name in leaky_functions.
C10_Witness ==
    /\ mpc = "run"
    /\ fr.allocation_calls = 2
    /\ fr.free_calls = 1
    /\ Cardinality(OfKind(fr, "leak")) = 1
    /\ \E i \in DOMAIN run_issues : run_issues[i].message = <<"leak", fr.fn, 2, 1>>
    /\ fr.fn \in chk.leaky_functions

(***************************************************************************)
(* Array bounds.                                                           *)
(***************************************************************************)
\* The constant indexes: the tokens, and the value C gives them.
ConstantIndexes ==
    { [tokens |-> <<"1">>, value |-> 1], [tokens |-> <<"4">>, value |-> 4],
      [tokens |-> <<"0x4">>, value |-> 4], [tokens |-> <<"010">>, value |-> 8],
      [tokens |-> <<"-", "1">>, value |-> 0 - 1] }
\* The first child of a[i]: the reference to a, bare or under the implicit
\* array-to-pointer conversion.
SubscriptBases(a) == {Ref(a), Unexposed(Ref(a))}
StatedOutOfBounds(c, n) == IF c < 0 \/ c >= n THEN 1 ELSE 0

\* C11: a subscript a[c] with a constant index c on an array of constant
\* extent n, declared at file scope or in the function body, yields an
\* out-of-bounds error finding exactly when c < 0 or c >= n.
C11_OutOfBoundsIff ==
    mpc = "func" =>
        \A a \in ArrNames : \A base \in SubscriptBases(a), ci \in ConstantIndexes, loc \in Locs :
            /\ a \in DOMAIN chk.global_array_sizes =>
                   Cardinality(NewOfKind(After(EvSubscript(base, ci.tokens, loc)).fr, "out_of_bounds"))
                       = StatedOutOfBounds(ci.value, chk.global_array_sizes[a])
            /\ a \notin DOMAIN chk.global_array_sizes =>
                   \A n \in ArrSizes :
                       LET declared == Walk(Here, chk, hash_seed, EvArrayDecl(a, n))
                           used == Walk(declared, chk, hash_seed, EvSubscript(base, ci.tokens, loc))
                       IN Cardinality(NewOfKind(used.fr, "out_of_bounds")) = StatedOutOfBounds(ci.value, n)

(***************************************************************************)
(* Division by zero.                                                       *)
(***************************************************************************)
SlashThenZero(tokens) ==
    \E i \in 1..(Len(tokens) - 1) : tokens[i] = "/" /\ tokens[i + 1] = "0"

\* C12: a binary operator gets a division-by-zero finding (error, numeric)
\* exactly when some "/" among its tokens is immediately followed by "0".
C12_DivisionByZeroIff ==
    unit.op = "_check_division" =>
        /\ SlashThenZero(unit.tokens) =>
               /\ Len(unit.issues) = 1
               /\ unit.issues[1].category = "numeric" /\ unit.issues[1].severity = "error"
        /\ ~SlashThenZero(unit.tokens) => unit.issues = <<>>

(***************************************************************************)
(* printf and scanf.                                                       *)
(***************************************************************************)
\* The conversion specifiers of a format text as the specification counts
\* them: a "%%" pair counts for none; any other "%" counts for one when a
\* character of diuoxXfFeEgGaAcsp follows it, and the count goes on after
\* that character.
RECURSIVE StatedSpecifiers(_)
StatedSpecifiers(fmt) ==
    IF fmt = <<>> THEN 0
    ELSE IF Head(fmt) /= "%" THEN StatedSpecifiers(Tail(fmt))
    ELSE IF Len(fmt) >= 2 /\ fmt[2] = "%" THEN StatedSpecifiers(SubSeq(fmt, 3, Len(fmt)))
    ELSE LET ends == {k \in 2..Len(fmt) : fmt[k] \in PRINTF_SPECIFIERS} IN
         IF ends = {} THEN 0
         ELSE LET k == CHOOSE e \in ends : \A o \in ends : e <= o
              IN 1 + StatedSpecifiers(SubSeq(fmt, k + 1, Len(fmt)))

IsLiteral(arg) == Len(arg.tokens) = 1 /\ Head(arg.tokens[1]) = Quote
TextOf(arg) == SubSeq(arg.tokens[1], 2, Len(arg.tokens[1]) - 1)
ArityFindings(found) == {i \in DOMAIN found : found[i].message[1] = "arity_mismatch"}

\* C13: a printf or scanf call whose first argument is a string literal, of
\* any content, gets an arity-mismatch error exactly when the number of
\* conversion specifiers of the literal differs from the number of value
\* arguments.
C13_ArityMismatchIff ==
    (/\ unit.op = "library_call"
     /\ unit.callee \in {"printf", "scanf"}
     /\ unit.arguments /= <<>>
     /\ IsLiteral(unit.arguments[1]))
    => (Cardinality(ArityFindings(unit.issues)) =
            IF StatedSpecifiers(TextOf(unit.arguments[1])) /= Len(unit.arguments) - 1 THEN 1 ELSE 0)

(***************************************************************************)
(* Suggestions in the output.                                              *)
(***************************************************************************)
CarriesSuggestion(out) ==
    \/ \E i \in DOMAIN out.json.issues : "suggestion" \in DOMAIN out.json.issues[i]
    \/ \E i \in DOMAIN out.text : out.text[i].kind \in {"suggestion_title", "suggestion_detail"}

\* C14: when enable_suggestions is false, no finding of the serialized or
\* of the text output of a report carries a suggestion, although the
\* checkers attached one to the finding.
C14_SuggestionsDropped ==
    (unit.op = "emit" /\ ~unit.config.enable_suggestions) => ~CarriesSuggestion(unit)

(***************************************************************************)
(* The frontend handle.                                                    *)
(***************************************************************************)
\* C15: however the first calls of load_clang by several threads overlap,
\* the body (library path from LIBCLANG_PATH, verification Index) is
\* executed at most once in the process and every caller receives the same
\* handle.
C15_InitializedOnce ==
    /\ clang.bodies <= 1
    /\ clang.indexes <= 1
    /\ \A t \in Threads :
           /\ clang.pc[t] /= "raised"
           /\ clang.pc[t] = "done" => clang.got[t] = Handle

(***************************************************************************)
(* Unsafe pointer returners.                                               *)
(***************************************************************************)
Uninitialized(f, c, x) == x \in f.local_uninitialized \/ x \in c.global_uninitialized

\* C16: a function whose return statement returns a pointer variable that is
\* UNINITIALIZED there is among the unsafe pointer returners when its
\* analysis ends; and in a function analyzed after it, an assignment
\* x = f(...) to a pointer variable leaves x UNINITIALIZED, so that the next
\* use of x is reported as an uninitialized pointer use.
C16_UnsafeReturnerTaints ==
    mpc = "func" =>
        /\ \A x \in Names, loc \in Locs :
               (Uninitialized(fr, chk, x) /\ (x \in fr.pointer_vars \/ x \in chk.global_uninitialized))
               => fr.fn \in FinishChecker(chk, After(EvReturn({x}, loc)).fr).unsafe_pointer_returners
        /\ \A f \in chk.unsafe_pointer_returners, x \in fr.pointer_vars, loc \in Locs :
               LET assigned == Walk(Here, chk, hash_seed, EvAssign(x, f, "other"))
                   used == Walk(assigned, chk, hash_seed, EvUse(x, loc))
               IN /\ x \in assigned.fr.local_uninitialized
                  /\ \E i \in At(used.fr, "uninitialized_use", x, loc) : i > Len(fr.issues)

(***************************************************************************)
(* The pointer-use check.                                                  *)
(***************************************************************************)
\* The finding the specification's precedence chooses for a check of x under
\* the guards G; None for no finding.
StatedFinding(f, c, G, x, free_argument) ==
    IF x \in f.freed_pointers /\ ~free_argument THEN "use_after_free"
    ELSE IF x \in f.pointer_null /\ x \notin G /\ x \notin f.freed_pointers THEN "null_deref"
    ELSE IF Uninitialized(f, c, x) THEN "uninitialized_use"
    ELSE None
\* The (identifier, line, column) keys a frame has reported for a kind.
ReportedKeys(f, kind) ==
    CASE kind = "use_after_free" -> f.reported_uaf
      [] kind = "null_deref" -> f.reported_null
      [] kind = "uninitialized_use" -> f.reported_uninitialized
      [] OTHER -> {}

\* C17: one pointer-use check of x under the guards G emits at most one
\* finding, the one the precedence chooses: use-after-free if x is FREED and
\* the use is no argument of free; else null dereference if x is
\* NULL_VALUED, not in G and not FREED; else uninitialized use if x is
\* UNINITIALIZED; else none.  (The finding is emitted unless one of its kind
\* was emitted for x at this location before.)
C17_OneFindingByPrecedence ==
    mpc = "func" =>
        \A x \in Names, loc \in Locs, free_argument \in BOOLEAN :
            LET checked == report_pointer_use(fr, chk.global_uninitialized, x, loc, free_argument, CurGuards)
                new == {i \in DOMAIN checked.issues : i > Len(fr.issues)}
                stated == StatedFinding(fr, chk, CurGuards, x, free_argument)
            IN /\ Cardinality(new) <= 1
               /\ \A i \in new : /\ checked.issues[i].message[1] = stated
                                 /\ checked.issues[i].message[2] = x
                                 /\ checked.issues[i].severity = "error"
                                 /\ checked.issues[i].category = "memory"
               /\ (new /= {}) <=> (stated /= None /\ <<x, loc[1], loc[2]>> \notin ReportedKeys(fr, stated))

\* C17 witness: a check of a pointer that was FREED and NULL_VALUED, and
\* UNINITIALIZED as well, has emitted the use-after-free finding, the first
\* in the precedence.
C17_Witness ==
    /\ mpc = "func" /\ fr.issues /= <<>>
    /\ LET last == fr.issues[Len(fr.issues)] IN
       /\ last.message[1] = "use_after_free"
       /\ last.message[2] \in fr.freed_pointers \cap fr.pointer_null
       /\ Uninitialized(fr, chk, last.message[2])
       /\ dropped = {}

(***************************************************************************)
(* Uninitialized pointers: reported once; valid after an assignment.       *)
(***************************************************************************)
LifecycleKinds == {"uninitialized_use", "null_deref", "use_after_free"}

\* C18: once a pointer-use check has reported an uninitialized use of x, x
\* is no longer UNINITIALIZED, be it a local or a file-scope pointer: the
\* next use of x at another location in the same function, with nothing
\* tainting x in between, gives no further uninitialized-use finding.
C18_ReportedOnceThenDowngraded ==
    mpc = "func" =>
        \A x \in Names, loc \in Locs : \A later \in Locs \ {loc} :
            LET first == After(EvUse(x, loc))
                second == Walk(first, chk, hash_seed, EvUse(x, later))
            IN NewOfKind(first.fr, "uninitialized_use") /= {} =>
                   /\ ~Uninitialized(first.fr, chk, x)
                   /\ OfKind(second.fr, "uninitialized_use") = OfKind(first.fr, "uninitialized_use")

\* C19: after an assignment to a tracked pointer x (a parameter, a local
\* pointer, or a file-scope pointer recorded in global_uninitialized) from
\* malloc, calloc or realloc or from an expression beginning with "&", x is
\* VALID: in none of UNINITIALIZED, NULL_VALUED and FREED, and a dereference
\* that follows emits no uninitialized, null-dereference or use-after-free
\* finding.
C19_ValidAfterAssignment ==
    mpc = "func" =>
        \A x \in Names, loc \in Locs, rhs \in {<<callee, "other">> : callee \in AllocNames} \cup {<<None, "addr">>} :
            (x \in fr.pointer_vars \/ x \in chk.global_uninitialized) =>
                LET assigned == After(EvAssign(x, rhs[1], rhs[2]))
                    used == Walk(assigned, chk, hash_seed, EvUse(x, loc))
                IN /\ ~Uninitialized(assigned.fr, chk, x)
                   /\ x \notin assigned.fr.pointer_null \cup assigned.fr.freed_pointers
                   /\ \A kind \in LifecycleKinds : OfKind(used.fr, kind) = OfKind(fr, kind)

(***************************************************************************)
(* Conditions that guard nothing.                                          *)
(***************************************************************************)
\* The top-level forms the specification recognizes, parentheses and
\* implicit conversions aside: a bare pointer reference, a comparison
\* p != NULL / 0 / nullptr (either way round), a conjunction.
RecognizedForm(c) ==
    LET b == Bare(c) IN
    \/ b.kind = "DECL_REF_EXPR"
    \/ /\ b.kind = "BINARY_OPERATOR" /\ OperatorOf(b) = "!="
       /\ \/ Bare(b.children[1]).kind = "DECL_REF_EXPR" /\ IsNullLiteral(b.children[2])
          \/ Bare(b.children[2]).kind = "DECL_REF_EXPR" /\ IsNullLiteral(b.children[1])
    \/ b.kind = "BINARY_OPERATOR" /\ OperatorOf(b) = "&&"

\* C20: the guards an if condition adds for its then-branch are none when
\* the top-level form of the condition is a disjunction, a negation or any
\* shape other than a bare pointer reference, p != NULL / 0 / nullptr or a
\* conjunction of such forms; also when an operand of the disjunction
\* contains && and when the condition is a call taking pointers.
C20_UnrecognizedShapesGuardNothing ==
    mpc = "func" =>
        \A condition \in Conds :
            ~RecognizedForm(condition) =>
                /\ _extract_guarded_pointers(condition, fr.pointer_vars) = {}
                /\ TopOf(After(EvIf(condition)).guards).g = CurGuards

(***************************************************************************)
(* Used before assignment.                                                 *)
(***************************************************************************)
\* The assigned set as the specification describes it: the parameters, the
\* names declared with an initializer, the names that were the left child
\* of an earlier binary operator.
StatedAssigned(u) == u.params \cup u.initialized \cup u.lefts
WarnedNames(u) == {u.issues[i].message[2] : i \in DOMAIN u.issues}

\* C21: in the walk of one function a reference to a variable emits a
\* used-before-assignment warning exactly when its name is neither in the
\* assigned set (parameters, names declared with an initializer, left
\* children of earlier binary operators) nor reported already; so there is
\* at most one such warning per identifier, and the assigned set never
\* shrinks.
C21_UsedBeforeAssignment ==
    unit.op = "variable_walk" =>
        /\ \A v \in VarNames, loc \in Locs :
               LET after == VarVisitDeclRef(unit, v, loc) IN
               (Len(after.issues) = Len(unit.issues) + 1)
               <=> (v \notin StatedAssigned(unit) /\ v \notin WarnedNames(unit))
        /\ \A i, j \in DOMAIN unit.issues :
               unit.issues[i].message[2] = unit.issues[j].message[2] => i = j
        /\ StatedAssigned(unit) \subseteq unit.assigned


\* The check of a loop: the loop as written and the findings on it.
LoopChecked(kind) ==
    /\ unit.op = "_check_loop"
    /\ unit.loop.cursor.kind = kind
    /\ _is_reachable(unit.loop.cursor, <<unit.parent>>)
TokensOf(clause) == IF clause = <<>> THEN <<>> ELSE clause[1].tokens
StatedForFlag(loop) ==
    LET relational == RelationalMatch(TokensOf(loop.cond))
        direction == _analyze_increment(relational[1], loop.inc)
    IN \/ direction = "none"
       \/ direction = "up" /\ relational[2] \in {">", ">="}
       \/ direction = "down" /\ relational[2] \in {"<", "<="}

\* C22: a reachable for statement whose condition is v OP rhs with a
\* relational OP is flagged as an infinite loop exactly when the direction of
\* its increment clause for v is none, or up with > or >=, or down with < or
\* <=, whichever of the init and increment clauses are written.
C22_ForFlaggedByDirection ==
    (LoopChecked("FOR_STMT") /\ RelationalMatch(TokensOf(unit.loop.cond)) /= <<>>)
        => (unit.issues /= <<>> <=> StatedForFlag(unit.loop))

StatedWhileVariable(tokens) ==
    IF Len(tokens) = 1 /\ tokens[1] \in Identifiers THEN tokens[1]
    ELSE IF Len(tokens) = 3 /\ tokens[1] = "(" /\ tokens[2] \in Identifiers /\ tokens[3] = ")" THEN tokens[2]
    ELSE IF RelationalMatch(tokens) /= <<>> THEN RelationalMatch(tokens)[1]
    ELSE None
LiteralTrue == {<<"1">>, <<"(", "1", ")">>, <<"true">>, <<"(", "true", ")">>}

\* C23: a reachable while statement whose condition is not a literal true
\* is flagged exactly when the condition is a single identifier v, possibly
\* in parentheses, or v OP rhs with a relational OP, and the body, compound
\* or a single statement, does not modify v.
C23_WhileFlaggedByBody ==
    (LoopChecked("WHILE_STMT") /\ TokensOf(unit.loop.cond) \notin LiteralTrue)
        => LET v == StatedWhileVariable(TokensOf(unit.loop.cond)) IN
           unit.issues /= <<>> <=> (v /= None /\ ~_variable_modified(unit.loop.body, v))

StatedModified(tokens, v) ==
    \E k \in 1..(Len(tokens) - 1) :
        /\ BeforeContinue(tokens, k)
        /\ \/ tokens[k] \in {"++", "--"} /\ tokens[k + 1] = v
           \/ tokens[k] = v /\ tokens[k + 1] \in {"++", "--"}
           \/ /\ tokens[k] = v /\ tokens[k + 1] \in {"+=", "-=", "*=", "/="}
              /\ RhsTokens(tokens, k + 2) /= <<"0">>
           \/ /\ tokens[k] = v /\ tokens[k + 1] = "="
              /\ RhsTokens(tokens, k + 2) \notin {<<v>>, <<"(", v, ")">>}

\* C24: v counts as modified exactly when the body tokens before any
\* continue hold ++v, v++, --v, v--, a compound assignment to v other than
\* by 0, or v = expr with expr other than v and (v); a comparison of v and
\* an identifier that ends in v's name do not count.
C24_ModifiedIffWritten ==
    unit.op = "_variable_modified"
        => (unit.modified <=> StatedModified(TokensOf(unit.body), unit.var))

\* C25: a loop with an earlier sibling in its block that is a return, a
\* break or a definitely infinite loop is not flagged.
C25_FlaggedOnlyIfReachable ==
    (/\ unit.op = "_check_loop"
     /\ unit.before /= <<>>
     /\ \/ unit.before[1].kind \in {"RETURN_STMT", "BREAK_STMT"}
        \/ unit.before[1].kind = "WHILE_STMT" /\ _loop_is_definitely_infinite(unit.before[1]))
        => unit.issues = <<>>

FollowedTerminals(children) ==
    {k \in 1..(Len(children) - 1) : children[k].kind \in TerminalKinds}
First(set) == CHOOSE k \in set : \A o \in set : k <= o

\* C26: a compound statement gets an unreachable-code warning exactly when
\* a return, break or continue child has a following sibling: one warning,
\* at the sibling right after the first such child.
C26_OneUnreachableWarning ==
    unit.op = "_check_unreachable"
        => LET children == unit.cursor.children
               terminals == FollowedTerminals(children)
           IN unit.issues = IF terminals = {} THEN <<>>
                            ELSE << Issue("control-flow", "warning", "unreachable", None, 0, 0, SrcFile,
                                          <<children[First(terminals) + 1].line, 1>>) >>
C26_Witness ==
    /\ unit.op = "_check_unreachable"
    /\ Len(unit.cursor.children) = 3
    /\ unit.cursor.children[1].kind = "CALL_EXPR"
    /\ unit.cursor.children[2].kind = "RETURN_STMT"
    /\ Len(unit.issues) = 1
    /\ unit.issues[1].line = 3


(***************************************************************************)
(* scanf arguments.                                                        *)
(***************************************************************************)
AddressFindings(found) == {i \in DOMAIN found : found[i].message[1] = "scanf_argument"}
NeedsAddress(arguments) ==
    {i \in 2..Len(arguments) :
        /\ ~arguments[i].is_pointer
        /\ ~(arguments[i].tokens /= <<>> /\ arguments[i].tokens[1] = <<"&">>)}

\* C27: every scanf call gets one 'scanf requires address' error for each
\* value argument whose type is not a pointer and whose first token is not
\* &, and for no other, whatever the arity check of the call finds.
C27_AddressCheckedAlways ==
    (/\ unit.op = "library_call"
     /\ unit.callee = "scanf"
     /\ unit.arguments /= <<>>
     /\ IsLiteral(unit.arguments[1]))
    => Cardinality(AddressFindings(unit.issues)) = Cardinality(NeedsAddress(unit.arguments))


(***************************************************************************)
(* Assignments and guards inside a function; free of an expression.        *)
(***************************************************************************)
\* The right-hand sides that make a tracked pointer VALID: a call of an
\* allocator, an expression that begins with &, any other expression that is
\* neither null nor a call of an unsafe returner.
ValidatingSides ==
    {<<callee, "other">> : callee \in AllocNames} \cup {<<None, "addr">>, <<None, "other">>}
Tracked(x) == x \in fr.pointer_vars /\ x \notin chk.global_uninitialized

\* C28: the transition of x = E is applied at the assignment node, before
\* the sub-expressions of E are walked: when the assignment makes x VALID, a
\* dereference of x inside E (x = x->next) meets the state after the
\* assignment and gives no null, uninitialized or use-after-free finding,
\* whatever the state of x was before.
C28_RightSideSeesAssignedState ==
    mpc = "func" =>
        \A x \in Names, loc \in Locs, rhs \in ValidatingSides :
            Tracked(x) =>
                LET assigned == After(EvAssign(x, rhs[1], rhs[2]))
                    inside == Walk(assigned, chk, hash_seed, EvUse(x, loc))
                IN /\ ~Uninitialized(assigned.fr, chk, x)
                   /\ x \notin assigned.fr.pointer_null \cup assigned.fr.freed_pointers
                   /\ inside.fr.issues = fr.issues
\* C28 witness: x is tracked and FREED or NULL_VALUED without a guard, so
\* that a dereference before the assignment is reported, and the dereference
\* inside the right-hand side of x = x->next is not.
C28_Witness ==
    /\ mpc = "func"
    /\ \E x \in Names, loc \in Locs :
          /\ Tracked(x)
          /\ x \in fr.pointer_null \cup fr.freed_pointers
          /\ After(EvUse(x, loc)).fr.issues /= fr.issues
          /\ Walk(After(EvAssign(x, None, "other")), chk, hash_seed, EvUse(x, loc)).fr.issues = fr.issues

\* C29: a guard for p from the condition of an if stays in force through
\* the then-branch: an assignment p = NULL there leaves the guards as they
\* are, and a dereference of p that follows it gives no null-dereference
\* finding.
C29_GuardOutlivesNullAssignment ==
    (mpc = "func" /\ TopOf(guards).phase = "then") =>
        \A p \in CurGuards, loc \in Locs :
            LET assigned == After(EvAssign(p, None, "null"))
                used == Walk(assigned, chk, hash_seed, EvUse(p, loc))
            IN /\ assigned.guards = guards
               /\ used.guards = guards
               /\ OfKind(used.fr, "null_deref") = OfKind(fr, "null_deref")
\* C29 witness: in a then-branch that guards the tracked pointer p, which
\* is not NULL_VALUED, p = NULL makes it NULL_VALUED and the dereference
\* that follows adds no finding, though it would without the guard.
C29_Witness ==
    /\ mpc = "func" /\ TopOf(guards).phase = "then"
    /\ \E p \in CurGuards, loc \in Locs :
          LET assigned == After(EvAssign(p, None, "null")) IN
          /\ p \in fr.pointer_vars /\ p \notin fr.pointer_null
          /\ p \in assigned.fr.pointer_null
          /\ Walk(assigned, chk, hash_seed, EvUse(p, loc)).fr.issues = fr.issues
          /\ OfKind(report_pointer_use(assigned.fr, chk.global_uninitialized, p, loc, FALSE, {}), "null_deref")
                 /= OfKind(fr, "null_deref")

\* The arguments of free that are no bare identifier and refer to p first.
FreedExpressions(p) ==
    {MemberRef(Ref(p), "data"), Unary("*", Ref(p)), Subscript(Ref(p), Lit("0")),
     MemberRef(Unexposed(Ref(p)), "data"), Paren(Ref(p))}

\* C30: free(E) with E no bare identifier treats the first identifier p
\* that E refers to as freed: p becomes FREED and NULL_VALUED, a later
\* free(p) has a double-free finding and a later dereference of p a
\* use-after-free finding.
C30_FreeOfExpressionFreesFirstName ==
    mpc = "func" =>
        \A p \in Names, loc \in Locs : \A later \in Locs \ {loc}, E \in FreedExpressions(p) :
            LET freed == After(EvCall("free", <<Arg(arg_name(E), loc)>>))
                left == Walk(freed, chk, hash_seed, EvLeave)
                again == Walk(left, chk, hash_seed, EvCall("free", <<Arg(arg_name(Ref(p)), later)>>))
                deref == Walk(left, chk, hash_seed, EvUse(p, later))
            IN /\ p \in freed.fr.freed_pointers \cap freed.fr.pointer_null
               /\ At(again.fr, "double_free", p, later) /= {}
               /\ At(deref.fr, "use_after_free", p, later) /= {}
\* C30 witness: p is tracked and in none of the sets, and free(p->data)
\* puts it into FREED and NULL_VALUED.
C30_Witness ==
    /\ mpc = "func"
    /\ \E p \in Names, loc \in Locs :
          LET freed == After(EvCall("free", <<Arg(arg_name(MemberRef(Ref(p), "data")), loc)>>)) IN
          /\ Tracked(p)
          /\ p \notin fr.freed_pointers \cup fr.pointer_null \cup fr.local_uninitialized
          /\ p \in freed.fr.freed_pointers \cap freed.fr.pointer_null
          /\ freed.fr.issues = fr.issues

=============================================================================
